---- MODULE Spec2Model ----
(***************************************************************************)
(* Elliptic-curve gadgets (halo2_gadgets, module ecc) and the full-width   *)
(* fixed-base scalar multiplication of the ECC chip (mul_fixed/full_width).*)
(*                                                                         *)
(* The Pallas curve y^2 = x^3 + 5 over a 255-bit field is scaled down to   *)
(* the curve of the same equation over F_277, which has prime order 283:   *)
(* as for Pallas the base field is smaller than the scalar field, the      *)
(* generator is (-1, 2), no point has x = 0 or y = 0, and the scalar       *)
(* modulus lies just above 2^(L_ORCHARD_SCALAR - 1), so that the top       *)
(* window of a canonical scalar is at most 4.  L_ORCHARD_SCALAR is scaled  *)
(* from 255 to 9 bits and NUM_WINDOWS from 85 to 3.                        *)
(*                                                                         *)
(* Option<T>:  None is << >>, Some(v) is << v >>.                          *)
(* Result<T>:  a record [ok, val, err].                                    *)
(***************************************************************************)
EXTENDS Integers, Sequences, FiniteSets, TLC

(* ---------------------------------------------------------------------- *)
(* Constants of the program                                                *)
(* ---------------------------------------------------------------------- *)

\* pallas::Base: modulus of the field of coordinates and of circuit cells.
P_BASE == 277

\* pallas::Scalar: modulus of the scalar field, the order of the curve group.
Q_SCALAR == 283

\* Window size for fixed-base scalar multiplication.
FIXED_BASE_WINDOW_SIZE == 3

\* 2^FIXED_BASE_WINDOW_SIZE
H == 2 ^ FIXED_BASE_WINDOW_SIZE

\* Number of bits of a full-width scalar.
L_ORCHARD_SCALAR == 9

\* Number of windows of a full-width scalar.
NUM_WINDOWS == (L_ORCHARD_SCALAR + FIXED_BASE_WINDOW_SIZE - 1) \div FIXED_BASE_WINDOW_SIZE

None == << >>

Some(v) == << v >>

IsSome(o) == Len(o) = 1

Unwrap(o) == o[1]

Ok(v) == [ok |-> TRUE, val |-> Some(v), err |-> ""]

Err(e) == [ok |-> FALSE, val |-> None, err |-> e]

\* plonk::Error::SynthesisError, the error of a failed synthesis step.
SynthesisError == "SynthesisError"

\* A `let` binding: the bound expression is evaluated once, to a value, and
\* the body is evaluated with it.
Let(v, Body(_)) == CHOOSE r \in { Body(x) : x \in { v } } : TRUE

(* ---------------------------------------------------------------------- *)
(* Field arithmetic of pallas::Base                                        *)
(* ---------------------------------------------------------------------- *)

FpAdd(a, b) == (a + b) % P_BASE

FpSub(a, b) == (a + P_BASE - (b % P_BASE)) % P_BASE

FpMul(a, b) == (a * b) % P_BASE

FpNeg(a) == (P_BASE - (a % P_BASE)) % P_BASE

\* Square-and-multiply exponentiation.
RECURSIVE FpPow(_, _)
FpPow(a, e) ==
    IF e = 0 THEN 1
    ELSE ((FpPow(a, e \div 2) ^ 2) * (IF e % 2 = 1 THEN a % P_BASE ELSE 1)) % P_BASE

\* Field inversion (Fermat); the inverse of 0 is 0, as ff::Field::invert
\* followed by unwrap_or(zero) gives.
FpInv(a) == FpPow(a, P_BASE - 2)

(* ---------------------------------------------------------------------- *)
(* The curve group: reference (out-of-circuit) arithmetic                  *)
(* ---------------------------------------------------------------------- *)

\* A curve point (pallas::Affine, pallas::Point) is the k in 0 .. Q_SCALAR - 1
\* with which it is [k]G, G = (-1, 2) the generator: 0 is the identity, and
\* the group law is the addition of Z / Q_SCALAR.  The affine coordinates of
\* [k]G for k = 1 .. Q_SCALAR - 1, as the curve's arithmetic gives them:
GeneratorMultiples ==
   << <<276,2>>, <<193,268>>, <<274,55>>, <<83,8>>, <<24,16>>, <<89,3>>, <<127,132>>, <<70,112>>,
     <<151,20>>, <<98,143>>, <<20,94>>, <<188,1>>, <<113,3>>, <<177,254>>, <<167,199>>, <<267,152>>,
     <<258,252>>, <<230,67>>, <<75,274>>, <<47,249>>, <<2,173>>, <<201,118>>, <<30,238>>, <<148,204>>,
     <<51,132>>, <<164,1>>, <<107,185>>, <<207,138>>, <<171,56>>, <<195,265>>, <<189,249>>, <<99,145>>,
     <<108,205>>, <<246,31>>, <<269,259>>, <<85,148>>, <<63,205>>, <<202,276>>, <<236,67>>, <<23,37>>,
     <<147,13>>, <<84,162>>, <<187,247>>, <<161,2>>, <<117,275>>, <<4,247>>, <<182,172>>, <<251,218>>,
     <<56,147>>, <<34,254>>, <<41,28>>, <<135,204>>, <<212,256>>, <<273,64>>, <<32,126>>, <<224,185>>,
     <<88,210>>, <<239,16>>, <<96,147>>, <<185,194>>, <<54,111>>, <<175,37>>, <<14,261>>, <<66,23>>,
     <<176,265>>, <<109,38>>, <<255,161>>, <<216,256>>, <<87,112>>, <<106,72>>, <<153,94>>, <<134,126>>,
     <<229,74>>, <<179,38>>, <<232,173>>, <<271,73>>, <<120,165>>, <<27,148>>, <<45,233>>, <<234,233>>,
     <<5,31>>, <<104,183>>, <<223,92>>, <<7,252>>, <<53,111>>, <<221,227>>, <<60,172>>, <<228,268>>,
     <<86,30>>, <<133,9>>, <<144,162>>, <<181,227>>, <<131,194>>, <<259,199>>, <<183,12>>, <<43,104>>,
     <<91,238>>, <<81,161>>, <<249,74>>, <<190,138>>, <<12,25>>, <<79,240>>, <<261,8>>, <<272,218>>,
     <<152,227>>, <<155,13>>, <<210,269>>, <<125,130>>, <<128,78>>, <<214,56>>, <<76,74>>, <<90,64>>,
     <<65,20>>, <<165,129>>, <<26,246>>, <<168,143>>, <<191,64>>, <<218,161>>, <<48,118>>, <<156,39>>,
     <<126,21>>, <<61,257>>, <<105,259>>, <<275,233>>, <<180,259>>, <<11,134>>, <<111,151>>, <<157,139>>,
     <<62,152>>, <<238,194>>, <<31,218>>, <<206,55>>, <<49,115>>, <<35,105>>, <<74,222>>, <<252,13>>,
     <<170,111>>, <<225,152>>, <<169,221>>, <<266,239>>, <<28,159>>, <<28,118>>, <<266,38>>, <<169,56>>,
     <<225,125>>, <<170,166>>, <<252,264>>, <<74,55>>, <<35,172>>, <<49,162>>, <<206,222>>, <<31,59>>,
     <<238,83>>, <<62,125>>, <<157,138>>, <<111,126>>, <<11,143>>, <<180,18>>, <<275,44>>, <<105,18>>,
     <<61,20>>, <<126,256>>, <<156,238>>, <<48,159>>, <<218,116>>, <<191,213>>, <<168,134>>, <<26,31>>,
     <<165,148>>, <<65,257>>, <<90,213>>, <<76,203>>, <<214,221>>, <<128,199>>, <<125,147>>, <<210,8>>,
     <<155,264>>, <<152,50>>, <<272,59>>, <<261,269>>, <<79,37>>, <<12,252>>, <<190,139>>, <<249,203>>,
     <<81,116>>, <<91,39>>, <<43,173>>, <<183,265>>, <<259,78>>, <<131,83>>, <<181,50>>, <<144,115>>,
     <<133,268>>, <<86,247>>, <<228,9>>, <<60,105>>, <<221,50>>, <<53,166>>, <<7,25>>, <<223,185>>,
     <<104,94>>, <<5,246>>, <<234,44>>, <<45,44>>, <<27,129>>, <<120,112>>, <<271,204>>, <<232,104>>,
     <<179,239>>, <<229,203>>, <<134,151>>, <<153,183>>, <<106,205>>, <<87,165>>, <<216,21>>, <<255,116>>,
     <<109,239>>, <<176,12>>, <<66,254>>, <<14,16>>, <<175,240>>, <<54,166>>, <<185,83>>, <<96,130>>,
     <<239,261>>, <<88,67>>, <<224,92>>, <<32,151>>, <<273,213>>, <<212,21>>, <<135,73>>, <<41,249>>,
     <<34,23>>, <<56,130>>, <<251,59>>, <<182,105>>, <<4,30>>, <<117,2>>, <<161,275>>, <<187,30>>,
     <<84,115>>, <<147,264>>, <<23,240>>, <<236,210>>, <<202,1>>, <<63,72>>, <<85,129>>, <<269,18>>,
     <<246,246>>, <<108,72>>, <<99,132>>, <<189,28>>, <<195,12>>, <<171,221>>, <<207,139>>, <<107,92>>,
     <<164,276>>, <<51,145>>, <<148,73>>, <<30,39>>, <<201,159>>, <<2,104>>, <<47,28>>, <<75,3>>,
     <<230,210>>, <<258,25>>, <<267,125>>, <<167,78>>, <<177,23>>, <<113,274>>, <<188,276>>, <<20,183>>,
     <<98,134>>, <<151,257>>, <<70,165>>, <<127,145>>, <<89,274>>, <<24,261>>, <<83,269>>, <<274,222>>,
     <<193,9>>, <<276,275>> >>

\* The curve points.
CurvePoints == 0..(Q_SCALAR - 1)

\* PrimeCurveAffine::identity().
identity == 0

\* Reference scalar multiplication, base * scalar.
RefMul(pt, s) == (pt * (s % Q_SCALAR)) % Q_SCALAR

\* Reference group addition.
RefAdd(a, b) == (a + b) % Q_SCALAR

\* Reference negation.
RefNeg(a) == (Q_SCALAR - a) % Q_SCALAR

\* CurveAffine::coordinates: none for the identity.
coordinates(pt) == IF pt = identity THEN None ELSE Some(GeneratorMultiples[pt])

\* The pair of cell values the chip witnesses for a point: its affine
\* coordinates, the identity being mapped to (0, 0).
AffineXY(pt) == IF IsSome(coordinates(pt)) THEN Unwrap(coordinates(pt)) ELSE << 0, 0 >>

\* EccPoint::is_identity on known cell values.
is_identity(xy) == xy[1] = 0 /\ xy[2] = 0

(* ---------------------------------------------------------------------- *)
(* Fixed bases                                                             *)
(* ---------------------------------------------------------------------- *)

\* The fixed bases the tests multiply with.
FixedBases == { "CommitIvkR", "NoteCommitR", "ValueCommitR", "SpendAuthG" }

\* FixedPoints::generator: each base is a non-identity point of the group.
generator(base) ==
    CASE base = "CommitIvkR" -> 1
      [] base = "NoteCommitR" -> 2
      [] base = "ValueCommitR" -> 45
      [] base = "SpendAuthG" -> 200

(* ---------------------------------------------------------------------- *)
(* utilities: decompose_word and range_check                               *)
(* ---------------------------------------------------------------------- *)

\* The first n bits of word, least significant first.
to_le_bits(word, n) == [i \in 1..n |-> (word \div (2 ^ (i - 1))) % 2]

\* chunk.iter().rev().fold(0, |acc, b| (acc << 1) + b), as a u8.
FoldChunk(chunk, n) ==
    LET RECURSIVE Go(_, _)
        \* the bits n, n-1, .., 1 are folded in this order
        Go(i, acc) == IF i = 0 THEN acc ELSE Go(i - 1, ((acc * 2) + chunk[i]) % 256)
    IN Go(n, 0)

\* Splits the word_num_bits low bits of word, padded with zero bits to a
\* multiple of window_num_bits, into windows, least significant first.
decompose_word(word, word_num_bits, window_num_bits) ==
    LET padding == (window_num_bits - (word_num_bits % window_num_bits)) % window_num_bits
        bits == to_le_bits(word, word_num_bits) \o [i \in 1..padding |-> 0]
        chunks == Len(bits) \div window_num_bits
    IN [c \in 1..chunks |->
           FoldChunk([j \in 1..window_num_bits |-> bits[(c - 1) * window_num_bits + j]],
                     window_num_bits)]

\* range_check(word, range): word * (word - 1) * ... * (word - (range - 1)),
\* the product over i of (word - i) starting from 1.
RECURSIVE range_check_from(_, _, _)
range_check_from(word, i, range) ==
    IF i >= range THEN 1
    ELSE FpMul(FpSub(word, i), range_check_from(word, i + 1, range))

range_check(word, range) == range_check_from(word, 0, range)

(* ---------------------------------------------------------------------- *)
(* The chip's addition formulas on affine coordinates                      *)
(* ---------------------------------------------------------------------- *)

\* Incomplete addition of two witnessed points (chip::add_incomplete): an
\* error in the exceptional cases, otherwise the chord formula.
add_incomplete_values(p, q) ==
    IF is_identity(p) \/ is_identity(q) THEN Err(SynthesisError)
    ELSE IF p[1] = q[1] THEN Err(SynthesisError)
    ELSE LET lambda == FpMul(FpSub(p[2], q[2]), FpInv(FpSub(p[1], q[1])))
             x_r == FpSub(FpSub(FpMul(lambda, lambda), p[1]), q[1])
             y_r == FpSub(FpMul(lambda, FpSub(p[1], x_r)), p[2])
         IN Ok(<< x_r, y_r >>)

\* Complete addition of two witnessed points (chip::add).
add_values(p, q) ==
    IF is_identity(p) THEN q
    ELSE IF is_identity(q) THEN p
    ELSE IF p[1] = q[1] /\ p[2] = FpNeg(q[2]) THEN << 0, 0 >>
    ELSE LET lambda == IF p[1] # q[1]
                         THEN FpMul(FpSub(q[2], p[2]), FpInv(FpSub(q[1], p[1])))
                         ELSE FpMul(FpMul(3, FpMul(p[1], p[1])), FpInv(FpMul(2, p[2])))
             x_r == FpSub(FpSub(FpMul(lambda, lambda), p[1]), q[1])
             y_r == FpSub(FpMul(lambda, FpSub(p[1], x_r)), p[2])
         IN << x_r, y_r >>

(* ---------------------------------------------------------------------- *)
(* The backend (layouter, region) as the chip sees it                      *)
(* ---------------------------------------------------------------------- *)

\* The steps of a mul_fixed call at which the backend can return an error.
FailPoints == { "none", "assign_region_incomplete", "enable", "assign_advice",
                "assign_region_inner", "assign_region_complete" }

\* What the backend does during one call: the step it fails at (with the row,
\* for the per-row steps), and whether it evaluates the value closures of
\* assign_advice (a witness-generating pass) or not (key generation).
Backends ==
    { [fail |-> f, at |-> i, witness |-> w] :
        f \in FailPoints, i \in 0..(NUM_WINDOWS - 1), w \in BOOLEAN }

\* A backend that raises no error.
NoFailure(bk) == bk.fail = "none"

Event(op, arg) == [op |-> op, arg |-> arg]

\* CellValue::new(cell, value): a cell of the window column and its value.
CellValue(row, value) == [row |-> row, value |-> value]

(* ---------------------------------------------------------------------- *)
(* mul_fixed: the part shared by the fixed-base variants                   *)
(* ---------------------------------------------------------------------- *)

\* offset_acc = sum over j in 0 .. NUM_WINDOWS - 2 of 2^(FIXED_BASE_WINDOW_SIZE * j + 1)
RECURSIVE offset_acc_from(_)
offset_acc_from(j) ==
    IF j > NUM_WINDOWS - 2 THEN 0
    ELSE (2 ^ (FIXED_BASE_WINDOW_SIZE * j + 1) + offset_acc_from(j + 1)) % Q_SCALAR

offset_acc == offset_acc_from(0)

\* A faulty window table: the windows below the most significant one are
\* recovered as [k * 8^w]B, without the offset 2 that keeps them away from
\* the identity.
window_point_no_offset(base, w, k) ==
    IF w < NUM_WINDOWS - 1
    THEN AffineXY(RefMul(generator(base), (k * (H ^ w)) % Q_SCALAR))
    ELSE AffineXY(RefMul(generator(base), (k * (H ^ w) + Q_SCALAR - offset_acc) % Q_SCALAR))

\* The point recovered for window w (0-based) holding the value k:
\* [(k + 2) * 8^w]B below the most significant window, and
\* [k * 8^(NUM_WINDOWS - 1) - offset_acc]B for the most significant one.
window_point(base, w, k) ==
    IF w < NUM_WINDOWS - 1
    THEN AffineXY(RefMul(generator(base), ((k + 2) * (H ^ w)) % Q_SCALAR))
    ELSE AffineXY(RefMul(generator(base), (k * (H ^ w) + Q_SCALAR - offset_acc) % Q_SCALAR))

\* Incomplete addition on optional values: the exceptional cases are only
\* seen when both values are known.
add_incomplete_assign(p, q) ==
    IF IsSome(p) /\ IsSome(q)
    THEN LET r == add_incomplete_values(Unwrap(p), Unwrap(q))
         IN IF r.ok THEN Ok(r.val) ELSE r
    ELSE Ok(None)

\* Complete addition on optional values (add_config.assign_region).
add_assign(p, q) ==
    IF IsSome(p) /\ IsSome(q) THEN Some(add_values(Unwrap(p), Unwrap(q))) ELSE None

\* The accumulation over the windows 1 .. NUM_WINDOWS - 2 by incomplete
\* addition: the accumulator after window w, the additions made so far.
RECURSIVE accumulate(_, _, _, _, _)
accumulate(base, windows, w, acc, adds) ==
    IF w > NUM_WINDOWS - 2 THEN [res |-> Ok(acc), adds |-> adds]
    ELSE LET k == windows[w + 1].value
             mul_b == IF IsSome(k) THEN Some(window_point(base, w, Unwrap(k))) ELSE None
             r == add_incomplete_assign(mul_b, acc)
             done == Append(adds, << mul_b, acc >>)
         IN IF r.ok THEN accumulate(base, windows, w + 1, Unwrap(r.val), done)
            ELSE [res |-> r, adds |-> done]

\* super::Config::assign_region_inner: initialises the accumulator with
\* window 0, adds the windows 1 .. NUM_WINDOWS - 2 incompletely and
\* recovers the point of the most significant window.
assign_region_inner(windows, base, bk) ==
    IF bk.fail = "assign_region_inner"
    THEN [res |-> Err(SynthesisError), adds |-> << >>]
    ELSE LET k0 == windows[1].value
             m0 == IF IsSome(k0) THEN Some(window_point(base, 0, Unwrap(k0))) ELSE None
             a == accumulate(base, windows, 1, m0, << >>)
             kl == windows[NUM_WINDOWS].value
             mul_b == IF IsSome(kl)
                      THEN Some(window_point(base, NUM_WINDOWS - 1, Unwrap(kl)))
                      ELSE None
         IN IF a.res.ok
            THEN [res |-> Ok(<< Unwrap(a.res.val), mul_b >>), adds |-> a.adds]
            ELSE a

(* ---------------------------------------------------------------------- *)
(* mul_fixed::full_width::Config                                           *)
(* ---------------------------------------------------------------------- *)

\* A faulty selector loop: the error of enabling a selector is dropped and
\* the loop goes on.
RECURSIVE enable_rows_unchecked(_, _, _, _)
enable_rows_unchecked(offset, idx, bk, log) ==
    IF idx >= NUM_WINDOWS THEN [ok |-> TRUE, log |-> log]
    ELSE enable_rows_unchecked(offset, idx + 1, bk,
                               IF bk.fail = "enable" /\ bk.at = idx THEN log
                               ELSE Append(log, Event("enable", offset + idx)))

\* The rows offset .. offset + NUM_WINDOWS - 1 on which the selector
\* q_mul_fixed_full is enabled, up to a failing row.
RECURSIVE enable_rows(_, _, _, _)
enable_rows(offset, idx, bk, log) ==
    IF idx >= NUM_WINDOWS THEN [ok |-> TRUE, log |-> log]
    ELSE IF bk.fail = "enable" /\ bk.at = idx THEN [ok |-> FALSE, log |-> log]
    ELSE enable_rows(offset, idx + 1, bk, Append(log, Event("enable", offset + idx)))

\* A faulty loop: a window of value 0 is left to the default of the column
\* instead of being assigned to the cell of its row.
RECURSIVE assign_windows_sparse(_, _, _, _, _, _)
assign_windows_sparse(scalar_windows, offset, idx, bk, windows, log) ==
    IF idx >= Len(scalar_windows) THEN [ok |-> TRUE, windows |-> windows, log |-> log]
    ELSE LET window == scalar_windows[idx + 1]
         IN IF (bk.fail = "assign_advice" /\ bk.at = idx) \/ (bk.witness /\ ~IsSome(window))
            THEN [ok |-> FALSE, windows |-> windows, log |-> log]
            ELSE assign_windows_sparse(scalar_windows, offset, idx + 1, bk,
                                       Append(windows, CellValue(offset + idx, window)),
                                       IF window = Some(0) THEN log
                                       ELSE Append(log, Event("assign_advice", offset + idx)))

\* The loop assigning each window to the advice cell of its row.
RECURSIVE assign_windows(_, _, _, _, _, _)
assign_windows(scalar_windows, offset, idx, bk, windows, log) ==
    IF idx >= Len(scalar_windows) THEN [ok |-> TRUE, windows |-> windows, log |-> log]
    ELSE LET window == scalar_windows[idx + 1]
         IN IF (bk.fail = "assign_advice" /\ bk.at = idx) \/ (bk.witness /\ ~IsSome(window))
            THEN [ok |-> FALSE, windows |-> windows, log |-> log]
            ELSE assign_windows(scalar_windows, offset, idx + 1, bk,
                                Append(windows, CellValue(offset + idx, window)),
                                Append(log, Event("assign_advice", offset + idx)))

\* Config::decompose_scalar_fixed: witnesses the scalar as NUM_WINDOWS
\* 3-bit windows.  "panic" is the failed length assertion.
decompose_scalar_fixed(SCALAR_NUM_BITS, scalar, offset, bk, log) ==
    LET en == enable_rows(offset, 0, bk, log)
        decomposed == IF IsSome(scalar)
                      THEN Some(decompose_word(Unwrap(scalar), SCALAR_NUM_BITS,
                                               FIXED_BASE_WINDOW_SIZE))
                      ELSE None
        scalar_windows == IF IsSome(decomposed)
                          THEN [i \in 1..Len(Unwrap(decomposed)) |->
                                   Some(Unwrap(decomposed)[i] % P_BASE)]
                          ELSE [i \in 1..NUM_WINDOWS |-> None]
        as == assign_windows(scalar_windows, offset, 0, bk, << >>, en.log)
    IN IF ~en.ok THEN [res |-> Err(SynthesisError), panic |-> FALSE, log |-> en.log]
       ELSE IF IsSome(decomposed) /\ Len(Unwrap(decomposed)) # NUM_WINDOWS
       THEN [res |-> Err("panic"), panic |-> TRUE, log |-> en.log]
       ELSE IF ~as.ok THEN [res |-> Err(SynthesisError), panic |-> FALSE, log |-> as.log]
       ELSE [res |-> Ok(as.windows), panic |-> FALSE, log |-> as.log]

\* A faulty witness: the scalar is decomposed as if it had one window less,
\* as a wrong SCALAR_NUM_BITS would make it.
witness_short(offset, scalar, bk, log) ==
    LET d == decompose_scalar_fixed(L_ORCHARD_SCALAR - FIXED_BASE_WINDOW_SIZE,
                                    scalar, offset, bk, log)
    IN IF d.res.ok
       THEN [res |-> Ok([value |-> scalar, windows |-> Unwrap(d.res.val)]),
             panic |-> FALSE, log |-> d.log]
       ELSE d

\* A faulty witness: the most significant bit of the scalar is dropped from
\* the decomposition (SCALAR_NUM_BITS one too small), the number of windows
\* being the same.
witness_low_bits(offset, scalar, bk, log) ==
    LET d == decompose_scalar_fixed(L_ORCHARD_SCALAR - 1, scalar, offset, bk, log)
    IN IF d.res.ok
       THEN [res |-> Ok([value |-> scalar, windows |-> Unwrap(d.res.val)]),
             panic |-> FALSE, log |-> d.log]
       ELSE d

\* A faulty witness: an unknown scalar is witnessed as the scalar 0.
witness_default(offset, scalar, bk, log) ==
    LET s == IF IsSome(scalar) THEN scalar ELSE Some(0)
        d == decompose_scalar_fixed(L_ORCHARD_SCALAR, s, offset, bk, log)
    IN IF d.res.ok
       THEN [res |-> Ok([value |-> s, windows |-> Unwrap(d.res.val)]),
             panic |-> FALSE, log |-> d.log]
       ELSE d

\* Config::witness: the EccScalarFixed of the scalar.
witness(offset, scalar, bk, log) ==
    LET d == decompose_scalar_fixed(L_ORCHARD_SCALAR, scalar, offset, bk, log)
    IN IF d.res.ok
       THEN [res |-> Ok([value |-> scalar, windows |-> Unwrap(d.res.val)]),
             panic |-> FALSE, log |-> d.log]
       ELSE d

\* A faulty assign: the most significant window is added to the accumulator
\* by incomplete addition, like the windows before it.
assign_incomplete(scalar, base, bk) ==
    LET none == [res |-> Err(SynthesisError), panic |-> FALSE, log |-> << >>,
                 adds |-> << >>, final |-> << >>]
        opened == << Event("open_region", 1) >>
        real_mul == IF IsSome(scalar)
                    THEN Some(RefMul(generator(base), Unwrap(scalar)))
                    ELSE None
    IN IF bk.fail = "assign_region_incomplete" THEN none
       ELSE Let(witness(0, scalar, bk, opened), LAMBDA w :
       IF ~w.res.ok
       THEN [none EXCEPT !.res = w.res, !.panic = w.panic, !.log = w.log]
       ELSE Let(assign_region_inner(Unwrap(w.res.val).windows, base, bk), LAMBDA inner :
       IF ~inner.res.ok
       THEN [none EXCEPT !.res = inner.res,
                         !.log = Append(w.log, Event("assign_region_inner", 1)),
                         !.adds = inner.adds]
       ELSE LET acc == Unwrap(inner.res.val)[1]
                mul_b == Unwrap(inner.res.val)[2]
                log1 == Append(Append(w.log, Event("assign_region_inner", 1)),
                               Event("close_region", 1))
                log2 == log1 \o << Event("open_region", 2), Event("add", 2),
                                   Event("close_region", 2) >>
            IN IF bk.fail = "assign_region_complete"
               THEN [none EXCEPT !.log = log1, !.adds = inner.adds]
               ELSE Let(add_incomplete_assign(mul_b, acc), LAMBDA sum :
               IF ~sum.ok
               THEN [none EXCEPT !.res = sum, !.log = log2, !.adds = inner.adds,
                                 !.final = << << mul_b, acc >> >>]
               ELSE IF IsSome(real_mul) /\ IsSome(Unwrap(sum.val))
                       /\ AffineXY(Unwrap(real_mul)) # Unwrap(Unwrap(sum.val))
               THEN [res |-> Err("panic"), panic |-> TRUE, log |-> log2,
                     adds |-> inner.adds, final |-> << << mul_b, acc >> >>]
               ELSE [res |-> Ok(<< Unwrap(sum.val), Unwrap(w.res.val) >>), panic |-> FALSE,
                     log |-> log2, adds |-> inner.adds,
                     final |-> << << mul_b, acc >> >>])))

\* A faulty assign: the region of the complete addition is assigned inside
\* the first region, before it is closed.
assign_nested(scalar, base, bk) ==
    LET none == [res |-> Err(SynthesisError), panic |-> FALSE, log |-> << >>,
                 adds |-> << >>, final |-> << >>]
        opened == << Event("open_region", 1) >>
        real_mul == IF IsSome(scalar)
                    THEN Some(RefMul(generator(base), Unwrap(scalar)))
                    ELSE None
    IN IF bk.fail = "assign_region_incomplete" THEN none
       ELSE Let(witness(0, scalar, bk, opened), LAMBDA w :
       IF ~w.res.ok
       THEN [none EXCEPT !.res = w.res, !.panic = w.panic, !.log = w.log]
       ELSE Let(assign_region_inner(Unwrap(w.res.val).windows, base, bk), LAMBDA inner :
       IF ~inner.res.ok
       THEN [none EXCEPT !.res = inner.res,
                         !.log = Append(w.log, Event("assign_region_inner", 1)),
                         !.adds = inner.adds]
       ELSE LET acc == Unwrap(inner.res.val)[1]
                mul_b == Unwrap(inner.res.val)[2]
                log1 == Append(w.log, Event("assign_region_inner", 1))
                log2 == log1 \o << Event("open_region", 2), Event("add", 2),
                                   Event("close_region", 2), Event("close_region", 1) >>
            IN IF bk.fail = "assign_region_complete"
               THEN [none EXCEPT !.log = log1, !.adds = inner.adds]
               ELSE Let(add_assign(mul_b, acc), LAMBDA result :
               IF IsSome(real_mul) /\ IsSome(result)
                  /\ AffineXY(Unwrap(real_mul)) # Unwrap(result)
               THEN [res |-> Err("panic"), panic |-> TRUE, log |-> log2,
                     adds |-> inner.adds, final |-> << << mul_b, acc >> >>]
               ELSE [res |-> Ok(<< result, Unwrap(w.res.val) >>), panic |-> FALSE,
                     log |-> log2, adds |-> inner.adds,
                     final |-> << << mul_b, acc >> >>])))

\* A faulty assign: the most significant window is added incompletely in
\* the first region, like the windows before it, and no second region is
\* assigned.
assign_one_region(scalar, base, bk) ==
    Let(assign_incomplete(scalar, base, bk), LAMBDA r :
        [r EXCEPT !.log = SelectSeq(r.log, LAMBDA e : e.arg # 2 \/ e.op \notin { "open_region", "add", "close_region" }),
                  !.adds = r.adds \o r.final,
                  !.final = << >>])

\* Config::assign: [scalar]B for a full-width scalar: the windows are
\* witnessed and accumulated by incomplete addition in a first region, the
\* most significant window is added by complete addition in a second one.
\* The record holds what the call returns (res, or panic for a failed
\* assertion) and what it did: the events of the layouter (log), the operands
\* of the incomplete additions (adds) and of the complete addition (final).
assign(scalar, base, bk) ==
    LET none == [res |-> Err(SynthesisError), panic |-> FALSE, log |-> << >>,
                 adds |-> << >>, final |-> << >>]
        opened == << Event("open_region", 1) >>
        real_mul == IF IsSome(scalar)
                    THEN Some(RefMul(generator(base), Unwrap(scalar)))
                    ELSE None
    IN IF bk.fail = "assign_region_incomplete" THEN none
       ELSE Let(witness(0, scalar, bk, opened), LAMBDA w :
       IF ~w.res.ok
       THEN [none EXCEPT !.res = w.res, !.panic = w.panic, !.log = w.log]
       ELSE Let(assign_region_inner(Unwrap(w.res.val).windows, base, bk), LAMBDA inner :
       IF ~inner.res.ok
       THEN [none EXCEPT !.res = inner.res,
                         !.log = Append(w.log, Event("assign_region_inner", 1)),
                         !.adds = inner.adds]
       ELSE LET acc == Unwrap(inner.res.val)[1]
                mul_b == Unwrap(inner.res.val)[2]
                log1 == Append(Append(w.log, Event("assign_region_inner", 1)),
                               Event("close_region", 1))
                log2 == log1 \o << Event("open_region", 2), Event("add", 2),
                                   Event("close_region", 2) >>
            IN IF bk.fail = "assign_region_complete"
               THEN [none EXCEPT !.log = log1, !.adds = inner.adds]
               ELSE Let(add_assign(mul_b, acc), LAMBDA result :
               IF IsSome(real_mul) /\ IsSome(result)
                  /\ AffineXY(Unwrap(real_mul)) # Unwrap(result)
               THEN [res |-> Err("panic"), panic |-> TRUE, log |-> log2,
                     adds |-> inner.adds, final |-> << << mul_b, acc >> >>]
               ELSE [res |-> Ok(<< result, Unwrap(w.res.val) >>), panic |-> FALSE,
                     log |-> log2, adds |-> inner.adds,
                     final |-> << << mul_b, acc >> >>])))

\* A faulty gate: the product of the range check runs over one value more.
create_gate_wide(q_mul_fixed_full, window) ==
    << [name |-> "window range check",
        poly |-> FpMul(q_mul_fixed_full, range_check(window, H + 1))] >>

\* The gate "Full-width fixed-base scalar mul" on one row: the polynomials
\* that must vanish where q_mul_fixed_full is enabled.  The polynomials of
\* coords_check are left out: they constrain the recovered point, not the
\* window, so that the range of a window rests on this gate's last
\* polynomial alone.
create_gate(q_mul_fixed_full, window) ==
    << [name |-> "window range check",
        poly |-> FpMul(q_mul_fixed_full, range_check(window, H))] >>

(* ---------------------------------------------------------------------- *)
(* EccInstructions: the chip behind the gadgets                            *)
(* ---------------------------------------------------------------------- *)

\* A witnessed value reaches a cell unless the backend fails or asks for a
\* value that is unknown.
assign_xy(value, bk) ==
    IF bk.fail # "none" THEN Err(SynthesisError)
    ELSE IF bk.witness /\ ~IsSome(value) THEN Err(SynthesisError)
    ELSE Ok(value)

\* A faulty witness_point: the identity is refused, as witness_point_non_id
\* refuses it.
witness_point_strict(value, bk) ==
    IF IsSome(value) /\ ~IsSome(coordinates(Unwrap(value))) THEN Err(SynthesisError)
    ELSE assign_xy(IF IsSome(value) THEN coordinates(Unwrap(value)) ELSE None, bk)

\* EccInstructions::witness_point: the identity is allowed and is mapped to
\* (0, 0) in affine coordinates.
witness_point(value, bk) ==
    assign_xy(IF IsSome(value) THEN Some(AffineXY(Unwrap(value))) ELSE None, bk)

\* A witness_point_non_id with an error of its own for the identity.
witness_point_non_id_typed(value, bk) ==
    IF IsSome(value) /\ ~IsSome(coordinates(Unwrap(value))) THEN Err("IdentityWitnessed")
    ELSE assign_xy(IF IsSome(value) THEN coordinates(Unwrap(value)) ELSE None, bk)

\* EccInstructions::witness_point_non_id: an error if the point is the identity.
witness_point_non_id(value, bk) ==
    IF IsSome(value) /\ ~IsSome(coordinates(Unwrap(value))) THEN Err(SynthesisError)
    ELSE assign_xy(IF IsSome(value) THEN coordinates(Unwrap(value)) ELSE None, bk)

\* EccInstructions::constrain_equal: the equality constraints between the
\* cells of a and of b, returned to be added to the constraint system.
constrain_equal(a, b, bk) ==
    IF bk.fail # "none" THEN Err(SynthesisError) ELSE Ok(<< a, b >>)

\* EccInstructions::add_incomplete: an error in the exceptional cases.
add_incomplete(a, b, bk) ==
    IF bk.fail # "none" THEN Err(SynthesisError)
    ELSE IF bk.witness /\ ~(IsSome(a) /\ IsSome(b)) THEN Err(SynthesisError)
    ELSE add_incomplete_assign(a, b)

\* EccInstructions::add: complete addition.
add(a, b, bk) ==
    IF bk.fail # "none" THEN Err(SynthesisError)
    ELSE IF bk.witness /\ ~(IsSome(a) /\ IsSome(b)) THEN Err(SynthesisError)
    ELSE Ok(add_assign(a, b))

\* EccInstructions::extract_p: the x-coordinate of a point.
extract_p(point) == IF IsSome(point) THEN Some(Unwrap(point)[1]) ELSE None

\* EccInstructions::mul_fixed: the full-width configuration's assign.
mul_fixed(scalar, base, bk) == assign(scalar, base, bk)

(* ---------------------------------------------------------------------- *)
(* The gadgets of ecc.rs                                                   *)
(* ---------------------------------------------------------------------- *)

\* The chips (EccChip values, compared by Eq) a circuit may hold.
Chips == { "chip_a", "chip_b" }

\* struct Point, NonIdentityPoint, X, ScalarFixed, FixedPoint: a chip and the
\* chip's value.
Wrapper(ty, chip, inner) == [ty |-> ty, chip |-> chip, inner |-> inner]

\* What a gadget call returned: res is "Ok", "Err" or "panic"; val holds the
\* wrappers of an Ok; args the values the call was made with; call what the
\* chip did.
Outcome(op, args, res, err, val, call) ==
    [op |-> op, args |-> args, res |-> res, err |-> err, val |-> val, call |-> call]

NoCall == Outcome("none", << >>, "Ok", "", << >>, << >>)

\* Result::map on the result of a chip instruction.
MapResult(op, args, r, wrapped, call) ==
    IF r.ok THEN Outcome(op, args, "Ok", "", wrapped, call)
    ELSE Outcome(op, args, "Err", r.err, << >>, call)

\* A faulty NonIdentityPoint::new: the point is witnessed by witness_point.
NonIdentityPoint_new_unchecked(chip, value, bk) ==
    LET point == witness_point(value, bk)
    IN MapResult("NonIdentityPoint::new", << chip, value, bk >>, point,
                 << Wrapper("NonIdentityPoint", chip, IF point.ok THEN Unwrap(point.val) ELSE None) >>,
                 << >>)

\* NonIdentityPoint::new
NonIdentityPoint_new(chip, value, bk) ==
    LET point == witness_point_non_id(value, bk)
    IN MapResult("NonIdentityPoint::new", << chip, value, bk >>, point,
                 << Wrapper("NonIdentityPoint", chip, IF point.ok THEN Unwrap(point.val) ELSE None) >>,
                 << >>)

\* Point::new
Point_new(chip, value, bk) ==
    LET point == witness_point(value, bk)
    IN MapResult("Point::new", << chip, value, bk >>, point,
                 << Wrapper("Point", chip, IF point.ok THEN Unwrap(point.val) ELSE None) >>,
                 << >>)

\* A faulty conversion: the point is made from the chip alone, its inner
\* point left unknown.
Point_from_chip(non_id_point) == Wrapper("Point", non_id_point.chip, None)

\* impl From<NonIdentityPoint> for Point
Point_from(non_id_point) == Wrapper("Point", non_id_point.chip, non_id_point.inner)

\* Into<Point>: of a Point itself, or of a NonIdentityPoint.
into_Point(other) == IF other.ty = "NonIdentityPoint" THEN Point_from(other) ELSE other

\* NonIdentityPoint::from_inner
NonIdentityPoint_from_inner(chip, inner) == Wrapper("NonIdentityPoint", chip, inner)

\* Point::from_inner
Point_from_inner(chip, inner) == Wrapper("Point", chip, inner)

\* NonIdentityPoint::constrain_equal
NonIdentityPoint_constrain_equal(self, other0, bk) ==
    LET other == into_Point(other0)
        r == constrain_equal(Point_from(self).inner, other.inner, bk)
    IN MapResult("NonIdentityPoint::constrain_equal", << self, other0, bk >>, r, << >>,
                 IF r.ok THEN << Unwrap(r.val) >> ELSE << >>)

\* A faulty Point::constrain_equal: the values of the two points are
\* compared during synthesis, and a mismatch is returned as an error.
Point_constrain_equal_checked(self, other0, bk) ==
    LET other == into_Point(other0)
        r == IF self.inner # other.inner THEN Err(SynthesisError)
             ELSE constrain_equal(self.inner, other.inner, bk)
    IN MapResult("Point::constrain_equal", << self, other0, bk >>, r, << >>,
                 IF r.ok THEN << Unwrap(r.val) >> ELSE << >>)

\* A faulty Point::constrain_equal: the point is constrained to equal itself.
Point_constrain_equal_self(self, other0, bk) ==
    LET r == constrain_equal(self.inner, self.inner, bk)
    IN MapResult("Point::constrain_equal", << self, other0, bk >>, r, << >>,
                 IF r.ok THEN << Unwrap(r.val) >> ELSE << >>)

\* Point::constrain_equal
Point_constrain_equal(self, other0, bk) ==
    LET other == into_Point(other0)
        r == constrain_equal(self.inner, other.inner, bk)
    IN MapResult("Point::constrain_equal", << self, other0, bk >>, r, << >>,
                 IF r.ok THEN << Unwrap(r.val) >> ELSE << >>)

\* NonIdentityPoint::extract_p and Point::extract_p
Point_extract_p(self) == Wrapper("X", self.chip, extract_p(self.inner))

\* NonIdentityPoint::add: self + other using complete addition.
NonIdentityPoint_add(self, other0, bk) ==
    LET other == into_Point(other0)
        r == add(self.inner, other.inner, bk)
        args == << self, other0, bk >>
    IN IF self.chip # other.chip
       THEN Outcome("NonIdentityPoint::add", args, "panic", "", << >>, << >>)
       ELSE MapResult("NonIdentityPoint::add", args, r,
                      << Wrapper("Point", self.chip, IF r.ok THEN Unwrap(r.val) ELSE None) >>,
                      << >>)

\* A faulty NonIdentityPoint::add_incomplete: the chip's complete addition
\* is called.
NonIdentityPoint_add_complete(self, other, bk) ==
    LET r == add(self.inner, other.inner, bk)
        args == << self, other, bk >>
    IN IF self.chip # other.chip
       THEN Outcome("NonIdentityPoint::add_incomplete", args, "panic", "", << >>, << >>)
       ELSE MapResult("NonIdentityPoint::add_incomplete", args, r,
                      << Wrapper("NonIdentityPoint", self.chip,
                                 IF r.ok THEN Unwrap(r.val) ELSE None) >>,
                      << >>)

\* NonIdentityPoint::add_incomplete: self + other using incomplete addition.
NonIdentityPoint_add_incomplete(self, other, bk) ==
    LET r == add_incomplete(self.inner, other.inner, bk)
        args == << self, other, bk >>
    IN IF self.chip # other.chip
       THEN Outcome("NonIdentityPoint::add_incomplete", args, "panic", "", << >>, << >>)
       ELSE MapResult("NonIdentityPoint::add_incomplete", args, r,
                      << Wrapper("NonIdentityPoint", self.chip,
                                 IF r.ok THEN Unwrap(r.val) ELSE None) >>,
                      << >>)

\* A faulty Point::add: the chip's incomplete addition is called.
Point_add_incomplete(self, other0, bk) ==
    LET other == into_Point(other0)
        r == add_incomplete(self.inner, other.inner, bk)
        args == << self, other0, bk >>
    IN IF self.chip # other.chip
       THEN Outcome("Point::add", args, "panic", "", << >>, << >>)
       ELSE MapResult("Point::add", args, r,
                      << Wrapper("Point", self.chip, IF r.ok THEN Unwrap(r.val) ELSE None) >>,
                      << >>)

\* A faulty Point::add: the chips are compared after the chip's addition
\* has been called.
Point_add_late_assert(self, other0, bk) ==
    LET other == into_Point(other0)
        r == add(self.inner, other.inner, bk)
        args == << self, other0, bk >>
    IN IF ~r.ok THEN Outcome("Point::add", args, "Err", r.err, << >>, << >>)
       ELSE IF self.chip # other.chip
       THEN Outcome("Point::add", args, "panic", "", << >>, << >>)
       ELSE Outcome("Point::add", args, "Ok", "",
                    << Wrapper("Point", self.chip, Unwrap(r.val)) >>, << >>)

\* Point::add: self + other using complete addition.
Point_add(self, other0, bk) ==
    LET other == into_Point(other0)
        r == add(self.inner, other.inner, bk)
        args == << self, other0, bk >>
    IN IF self.chip # other.chip
       THEN Outcome("Point::add", args, "panic", "", << >>, << >>)
       ELSE MapResult("Point::add", args, r,
                      << Wrapper("Point", self.chip, IF r.ok THEN Unwrap(r.val) ELSE None) >>,
                      << >>)

\* FixedPoint::from_inner
FixedPoint_from_inner(chip, inner) == Wrapper("FixedPoint", chip, inner)

\* FixedPoint::mul: [by] self, the result of the chip's mul_fixed wrapped with
\* this fixed point's chip.
FixedPoint_mul(self, by, bk) ==
    Let(mul_fixed(by, self.inner, bk), LAMBDA r :
        LET args == << self, by, bk >>
        IN IF r.panic THEN Outcome("FixedPoint::mul", args, "panic", "", << >>, r)
           ELSE MapResult("FixedPoint::mul", args, r.res,
                          IF r.res.ok
                          THEN << Wrapper("Point", self.chip, Unwrap(r.res.val)[1]),
                                  Wrapper("ScalarFixed", self.chip, Unwrap(r.res.val)[2]) >>
                          ELSE << >>,
                          r))

\* NonIdentityPoint::mul: [by] self by the chip's variable-base
\* multiplication, by the value of a cell.
NonIdentityPoint_mul(self, by, bk) ==
    LET r == IF bk.fail # "none" THEN Err(SynthesisError)
             ELSE IF bk.witness /\ ~(IsSome(self.inner) /\ IsSome(by)) THEN Err(SynthesisError)
             ELSE IF IsSome(self.inner) /\ IsSome(by)
             THEN Ok(Some(AffineXY(RefMul(
                     CHOOSE k \in CurvePoints : AffineXY(k) = Unwrap(self.inner),
                     Unwrap(by)))))
             ELSE Ok(None)
    IN MapResult("NonIdentityPoint::mul", << self, by, bk >>, r,
                 << Wrapper("Point", self.chip, IF r.ok THEN Unwrap(r.val) ELSE None),
                    Wrapper("ScalarVar", self.chip, by) >>,
                 << >>)

(* ---------------------------------------------------------------------- *)
(* Bounds of the model                                                     *)
(* ---------------------------------------------------------------------- *)

\* The gadget calls of one circuit.
MaxCalls == 3

\* The wrappers a circuit keeps to call further gadgets on, besides the one
\* returned last.
MaxPoints == 1

\* The constrain_equal calls of a circuit.
MaxConstraints == 1

\* The values a prover puts into a window cell in place of the witnessed one
\* are 0 .. H + MaxTamper and the MaxTamper largest elements of the field.
MaxTamper == 2

\* The points the tests witness: the identity, P, -P and Q.
WitnessPoints == { identity, 3, RefNeg(3), 10 }

WitnessValues == { None } \cup { Some(pt) : pt \in WitnessPoints }

\* The scalars of variable-base multiplication.
VarScalars == { None, Some(2) }

\* Full-width scalars: every element of the scalar field, or unknown.
ScalarValues == { None } \cup { Some(s) : s \in 0..(Q_SCALAR - 1) }

TamperValues == (0..(H + MaxTamper)) \cup ((P_BASE - MaxTamper)..(P_BASE - 1))

(* ---------------------------------------------------------------------- *)
(* The circuit under synthesis                                             *)
(* ---------------------------------------------------------------------- *)

VARIABLES
    pass,         \* "prove": the backend evaluates the value closures;
                  \* "keygen": it lays the circuit out without values
    ncalls,       \* the gadget calls made so far
    points,       \* the Point and NonIdentityPoint wrappers the circuit keeps
    constraints,  \* the equality constraints added by constrain_equal
    last,         \* the outcome of the last gadget call
    mulOut,       \* the outcome of the circuit's FixedPoint::mul call, if any
    region,       \* the window column of the mul_fixed region: the rows with
                  \* q_mul_fixed_full enabled, and the cell value of each row
    descriptor,   \* the fixed base that the proof constructions running in
                  \* parallel share
    provers       \* the proof constructions running in parallel, each on
                  \* its own constraint system

vars == << pass, ncalls, points, constraints, last, mulOut, region, descriptor, provers >>

NoRegion == [enabled |-> {}, window |-> << >>, tampered |-> FALSE]

\* The proof constructions that run in parallel.
ProverIds == { "A", "B" }

\* A proof construction that has not started.
IdleProver == [state |-> "idle", chip |-> "chip_a", base |-> "CommitIvkR", by |-> None,
               fail |-> "none", log |-> << >>, res |-> "Ok", val |-> << >>]

Init ==
    /\ pass \in { "keygen", "prove" }
    /\ ncalls = 0
    /\ points = {}
    /\ constraints = {}
    /\ last = NoCall
    /\ mulOut = None
    /\ region = NoRegion
    /\ descriptor = "ValueCommitR"
    /\ provers = [i \in ProverIds |-> IdleProver]

\* The backend of a call of a point gadget, failing or not.
PointBackend(fail) == [fail |-> fail, at |-> 0, witness |-> (pass = "prove")]

PointFails == { "none", "assign_region" }

\* The backend of a mul_fixed call: the failing row matters only for the
\* steps made once per row.
MulBackends ==
    { bk \in Backends : /\ bk.witness = (pass = "prove")
                        /\ (bk.fail \in { "enable", "assign_advice" } \/ bk.at = 0) }

\* The caller keeps a returned point while it has room for it.
Keep(o) ==
    IF /\ o.res = "Ok"
       /\ Len(o.val) > 0
       /\ o.val[1].ty \in { "Point", "NonIdentityPoint" }
       /\ Cardinality(points \cup { o.val[1] }) <= MaxPoints
    THEN points \cup { o.val[1] }
    ELSE points

\* The points in scope: the kept ones and the one the last call returned.
InScope ==
    points \cup (IF last.res = "Ok" /\ Len(last.val) > 0
                    /\ last.val[1].ty \in { "Point", "NonIdentityPoint" }
                 THEN { last.val[1] } ELSE {})

NonIdPoints == { w \in InScope : w.ty = "NonIdentityPoint" }

PlainPoints == { w \in InScope : w.ty = "Point" }

\* A call that returns o, a point the caller may keep.
Returned(o) ==
    /\ ncalls < MaxCalls
    /\ ncalls' = ncalls + 1
    /\ last' = o
    /\ points' = Keep(o)
    /\ UNCHANGED << pass, constraints, mulOut, region, descriptor, provers >>

\* A constrain_equal call with outcome o: its constraints join the circuit's.
Constrained(o) ==
    /\ ncalls < MaxCalls
    /\ Cardinality(constraints) < MaxConstraints
    /\ ncalls' = ncalls + 1
    /\ last' = o
    /\ constraints' = constraints \cup { o.call[i] : i \in 1..Len(o.call) }
    /\ UNCHANGED << pass, points, mulOut, region, descriptor, provers >>

PointNewStep ==
    \E chip \in Chips, value \in WitnessValues, fail \in PointFails :
        Returned(Point_new(chip, value, PointBackend(fail)))

NonIdentityPointNewStep ==
    \E chip \in Chips, value \in WitnessValues, fail \in PointFails :
        Returned(NonIdentityPoint_new(chip, value, PointBackend(fail)))

PointFromStep ==
    \E a \in NonIdPoints :
        Returned(Outcome("Point::from", << a >>, "Ok", "", << Point_from(a) >>, << >>))

FromInnerStep ==
    \E a \in NonIdPoints, chip \in Chips :
        Returned(Outcome("NonIdentityPoint::from_inner", << chip, a.inner >>, "Ok", "",
                         << NonIdentityPoint_from_inner(chip, a.inner) >>, << >>))

ExtractPStep ==
    \E a \in InScope :
        Returned(Outcome("extract_p", << a >>, "Ok", "", << Point_extract_p(a) >>, << >>))

NonIdentityPointAddStep ==
    \E a \in NonIdPoints, b \in InScope, fail \in PointFails :
        Returned(NonIdentityPoint_add(a, b, PointBackend(fail)))

PointAddStep ==
    \E a \in PlainPoints, b \in InScope, fail \in PointFails :
        Returned(Point_add(a, b, PointBackend(fail)))

AddIncompleteStep ==
    \E a \in NonIdPoints, b \in NonIdPoints, fail \in PointFails :
        Returned(NonIdentityPoint_add_incomplete(a, b, PointBackend(fail)))

NonIdentityPointMulStep ==
    \E a \in NonIdPoints, by \in VarScalars, fail \in PointFails :
        Returned(NonIdentityPoint_mul(a, by, PointBackend(fail)))

NonIdentityPointConstrainEqualStep ==
    \E a \in NonIdPoints, b \in InScope, fail \in PointFails :
        Constrained(NonIdentityPoint_constrain_equal(a, b, PointBackend(fail)))

PointConstrainEqualStep ==
    \E a \in PlainPoints, b \in InScope, fail \in PointFails :
        Constrained(Point_constrain_equal(a, b, PointBackend(fail)))

\* Synthesis of another circuit starts from an empty constraint system.
NewCircuit ==
    /\ ncalls > 0
    /\ pass' \in { "keygen", "prove" }
    /\ ncalls' = 0
    /\ points' = {}
    /\ constraints' = {}
    /\ last' = NoCall
    /\ mulOut' = None
    /\ region' = NoRegion
    /\ UNCHANGED << descriptor, provers >>

Next ==
    \/ PointNewStep
    \/ NonIdentityPointNewStep
    \/ PointFromStep
    \/ FromInnerStep
    \/ ExtractPStep
    \/ NonIdentityPointAddStep
    \/ PointAddStep
    \/ AddIncompleteStep
    \/ NonIdentityPointMulStep
    \/ NonIdentityPointConstrainEqualStep
    \/ PointConstrainEqualStep
    \/ NewCircuit

Spec == Init /\ [][Next]_vars

(* ---------------------------------------------------------------------- *)
(* Circuits with a full-width fixed-base multiplication                    *)
(* ---------------------------------------------------------------------- *)

\* The rows of a mul_fixed call's log on which the selector was enabled.
EnabledRows(log) == { log[i].arg : i \in { j \in 1..Len(log) : log[j].op = "enable" } }

\* A faulty layout: the rows of a call are counted on from the calls made
\* before it instead of from the start of its own region.
RegionOfShifted(o) ==
    IF o.res = "Ok"
    THEN [enabled |-> { r + ncalls : r \in EnabledRows(o.call.log) },
          window |-> [i \in 1..Len(o.val[2].inner.windows) |-> o.val[2].inner.windows[i].value],
          tampered |-> FALSE]
    ELSE NoRegion

\* The region the call laid out: nothing is left of a failed synthesis.
RegionOf(o) ==
    IF o.res = "Ok"
    THEN [enabled |-> EnabledRows(o.call.log),
          window |-> [i \in 1..Len(o.val[2].inner.windows) |-> o.val[2].inner.windows[i].value],
          tampered |-> FALSE]
    ELSE NoRegion

\* FixedPoint::mul on one of the fixed bases, once per circuit.
FixedPointMulStep ==
    /\ mulOut = None
    /\ ncalls < MaxCalls
    /\ \E chip \in Chips, base \in FixedBases, by \in ScalarValues, bk \in MulBackends :
           \E o \in { FixedPoint_mul(FixedPoint_from_inner(chip, base), by, bk) } :
               /\ last' = o
               /\ mulOut' = Some(o)
               /\ region' = RegionOf(o)
    /\ ncalls' = ncalls + 1
    /\ UNCHANGED << pass, points, constraints, descriptor, provers >>

\* The test's constrain_equal_non_id(chip, layouter, base_val, scalar_val,
\* result), called with the scalar of the multiplication: witnesses
\* base_val * scalar_val as a NonIdentityPoint and constrains the result of
\* the multiplication to equal it.
ConstrainEqualNonIdStep ==
    /\ mulOut # None
    /\ Unwrap(mulOut).res = "Ok"
    /\ IsSome(Unwrap(mulOut).args[2])
    /\ ncalls + 2 <= MaxCalls
    /\ Cardinality(constraints) < MaxConstraints
    /\ \E fail1 \in PointFails, fail2 \in PointFails :
           LET m == Unwrap(mulOut)
               result == m.val[1]
               base_val == generator(m.args[1].inner)
               scalar_val == Unwrap(m.args[2])
           IN \E expected \in { NonIdentityPoint_new(result.chip,
                                                     Some(RefMul(base_val, scalar_val)),
                                                     PointBackend(fail1)) } :
                  \/ /\ expected.res # "Ok"
                     /\ last' = expected
                     /\ ncalls' = ncalls + 1
                     /\ UNCHANGED constraints
                  \/ /\ expected.res = "Ok"
                     /\ \E o \in { Point_constrain_equal(result, expected.val[1],
                                                         PointBackend(fail2)) } :
                            /\ last' = o
                            /\ constraints' =
                                   constraints \cup { o.call[i] : i \in 1..Len(o.call) }
                     /\ ncalls' = ncalls + 2
    /\ UNCHANGED << pass, points, mulOut, region, descriptor, provers >>

\* A prover puts another value into one window cell of the region that the
\* multiplication has just laid out.
TamperWindowStep ==
    /\ pass = "prove"
    /\ last.op = "FixedPoint::mul"
    /\ ~region.tampered
    /\ \E row \in region.enabled, v \in TamperValues :
           /\ region.window[row + 1] # Some(v)
           /\ region' = [region EXCEPT !.window[row + 1] = Some(v), !.tampered = TRUE]
    /\ UNCHANGED << pass, ncalls, points, constraints, last, mulOut, descriptor, provers >>

NextMulFixed ==
    \/ FixedPointMulStep
    \/ ConstrainEqualNonIdStep
    \/ TamperWindowStep
    \/ NewCircuit

SpecMulFixed == Init /\ [][NextMulFixed]_vars

(* ---------------------------------------------------------------------- *)
(* Verification (MockProver::verify) of a circuit synthesised with values  *)
(* ---------------------------------------------------------------------- *)

\* The polynomials of the full-width gate that do not vanish on a row.
GateFailures(row) ==
    LET q == IF row \in region.enabled THEN 1 ELSE 0
        gate == create_gate(q, Unwrap(region.window[row + 1]))
    IN { gate[i].name : i \in { j \in 1..Len(gate) : gate[j].poly # 0 } }

\* The equality constraints between cells holding different values.
ConstraintFailures == { c \in constraints : c[1] # c[2] }

\* verify() = Ok(()): every gate vanishes on every row and every equality
\* constraint holds.
Verifies ==
    /\ \A i \in 1..Len(region.window) : IsSome(region.window[i]) => GateFailures(i - 1) = {}
    /\ ConstraintFailures = {}

(* ---------------------------------------------------------------------- *)
(* Properties of full-width fixed-base multiplication (SpecMulFixed)       *)
(* ---------------------------------------------------------------------- *)

\* The FixedPoint::mul calls the circuit has made.
MulOutcomes == { mulOut[i] : i \in 1..Len(mulOut) }

\* base.generator() * scalar for the base and the known scalar of a
\* FixedPoint::mul call, in affine coordinates.
RealMul(o) == AffineXY(RefMul(generator(o.args[1].inner), Unwrap(o.args[2])))

\* C1: for every known scalar s (the maximal element -1 included) and every
\* fixed base B, FixedPoint::mul fails no assertion, returns Ok unless the
\* backend raises an error, and the point it returns is the reference
\* product s * B.
C1_MulFixedIsReferenceProduct ==
    \A o \in MulOutcomes :
        IsSome(o.args[2]) =>
            /\ o.res # "panic"
            /\ NoFailure(o.args[3]) => o.res = "Ok"
            /\ o.res = "Ok" => o.val[1].inner = Some(RealMul(o))

\* The multiplication by -1 has returned -B.
C1_Witness ==
    \E o \in MulOutcomes :
        /\ o.args[2] = Some(Q_SCALAR - 1)
        /\ o.res = "Ok"
        /\ o.val[1].inner = Some(AffineXY(RefNeg(generator(o.args[1].inner))))

\* C2: for every fixed base, FixedPoint::mul by the scalar 0 returns Ok
\* unless the backend raises an error, and the point it returns is the
\* identity, encoded as (0, 0).
C2_MulByZeroIsIdentity ==
    \A o \in MulOutcomes :
        o.args[2] = Some(0) =>
            /\ o.res # "panic"
            /\ NoFailure(o.args[3]) => o.res = "Ok"
            /\ o.res = "Ok" => /\ o.val[1].inner = Some(<< 0, 0 >>)
                               /\ is_identity(Unwrap(o.val[1].inner))

\* The multiplication by 0 has added two opposite points on its last step.
C2_Witness ==
    \E o \in MulOutcomes :
        /\ o.args[2] = Some(0)
        /\ o.res = "Ok"
        /\ o.val[1].inner = Some(<< 0, 0 >>)
        /\ Len(o.call.final) = 1
        /\ LET mul_b == Unwrap(o.call.final[1][1])
               acc == Unwrap(o.call.final[1][2])
           IN /\ ~is_identity(acc)
              /\ mul_b = << acc[1], FpNeg(acc[2]) >>

\* The point recovered for the last window equals the accumulator: the last
\* addition is a doubling.
Doubling(o) ==
    /\ Len(o.call.final) = 1
    /\ IsSome(o.call.final[1][1])
    /\ o.call.final[1][1] = o.call.final[1][2]

\* C3: when the windows of the scalar make the point recovered for the last
\* window equal to the accumulator, FixedPoint::mul still returns Ok with
\* the reference product s * B.
C3_DoublingIsCorrect ==
    \A o \in MulOutcomes :
        Doubling(o) => /\ o.res = "Ok"
                       /\ o.val[1].inner = Some(RealMul(o))

\* A multiplication whose last addition is a doubling has returned.
C3_Witness ==
    \E o \in MulOutcomes :
        /\ Doubling(o)
        /\ o.res = "Ok"
        /\ ~is_identity(Unwrap(o.val[1].inner))
        /\ Unwrap(o.val[1].inner) = add_values(Unwrap(o.call.final[1][2]),
                                               Unwrap(o.call.final[1][2]))

\* The sum of window_i * H^i over the windows i, i + 1, ...
RECURSIVE WindowSum(_, _)
WindowSum(windows, i) ==
    IF i > Len(windows) THEN 0
    ELSE Unwrap(windows[i].value) * (H ^ (i - 1)) + WindowSum(windows, i + 1)

\* C4: for every known scalar s, the length assertion of
\* decompose_scalar_fixed does not fail, and the ScalarFixed that
\* FixedPoint::mul returns keeps s as its value and holds NUM_WINDOWS
\* window cells, the least significant first, each with a value in 0 .. 7,
\* s being the sum of window_i * 8^i.
C4_ScalarIsSumOfWindows ==
    \A o \in MulOutcomes :
        IsSome(o.args[2]) =>
            /\ o.res # "panic"
            /\ o.res = "Ok" =>
                   LET scalar == o.val[2].inner
                   IN /\ scalar.value = o.args[2]
                      /\ Len(scalar.windows) = NUM_WINDOWS
                      /\ \A i \in 1..Len(scalar.windows) :
                             /\ scalar.windows[i].row = i - 1
                             /\ IsSome(scalar.windows[i].value)
                             /\ Unwrap(scalar.windows[i].value) \in 0..7
                      /\ WindowSum(scalar.windows, 1) = Unwrap(o.args[2])

\* A scalar with a non-zero most significant window has been witnessed.
C4_Witness ==
    \E o \in MulOutcomes :
        /\ o.res = "Ok"
        /\ IsSome(o.args[2])
        /\ Unwrap(o.val[2].inner.windows[NUM_WINDOWS].value) > 0
        /\ Unwrap(o.val[2].inner.windows[1].value) > 0
        /\ WindowSum(o.val[2].inner.windows, 1) = Unwrap(o.args[2])

\* C5: on a row with the selector q_mul_fixed_full enabled, the polynomial
\* "window range check" vanishes exactly when the value of the window cell
\* is in 0 .. H - 1, and a window value outside this range makes
\* verification fail.
C5_WindowRangeCheck ==
    \A row \in region.enabled :
        IsSome(region.window[row + 1]) =>
            LET v == Unwrap(region.window[row + 1])
                failed == "window range check" \in GateFailures(row)
            IN /\ (~failed) <=> (v \in 0..(H - 1))
               /\ (v \notin 0..(H - 1)) => ~Verifies

\* A prover has put H into a window cell, and verification fails.
C5_Witness ==
    /\ region.tampered
    /\ \E row \in region.enabled : region.window[row + 1] = Some(H)
    /\ ~Verifies

(* ---------------------------------------------------------------------- *)
(* Properties of the point gadgets (Spec)                                  *)
(* ---------------------------------------------------------------------- *)

\* C6: NonIdentityPoint::new of the identity returns an error and no
\* wrapper; Point::new of the identity returns, unless the backend raises an
\* error, a Point holding (0, 0).
C6_IdentityWitnessing ==
    /\ (last.op = "NonIdentityPoint::new" /\ last.args[2] = Some(identity)) =>
           /\ last.res = "Err"
           /\ last.err = SynthesisError
           /\ last.val = << >>
    /\ (last.op = "Point::new" /\ last.args[2] = Some(identity)
           /\ NoFailure(last.args[3])) =>
           /\ last.res = "Ok"
           /\ last.val = << Wrapper("Point", last.args[1], Some(<< 0, 0 >>)) >>

\* The circuit holds the identity as a Point, and NonIdentityPoint::new of
\* the identity has just failed.
C6_Witness ==
    /\ last.op = "NonIdentityPoint::new"
    /\ last.args[2] = Some(identity)
    /\ NoFailure(last.args[3])
    /\ last.res = "Err"
    /\ \E w \in points : w.ty = "Point" /\ w.inner = Some(<< 0, 0 >>)

\* C7: after any sequence of gadget calls, no NonIdentityPoint in scope has
\* the coordinates (0, 0).
C7_NonIdentityPointIsNotIdentity ==
    \A w \in NonIdPoints : IsSome(w.inner) => ~is_identity(Unwrap(w.inner))

\* Two NonIdentityPoints are in scope, one of them returned by add_incomplete.
C7_Witness ==
    /\ last.op = "NonIdentityPoint::add_incomplete"
    /\ last.res = "Ok"
    /\ IsSome(last.val[1].inner)
    /\ Cardinality(NonIdPoints) = 2

\* C8: in a circuit synthesised with values, a constrain_equal call that
\* returned Ok has added the constraint between its two points (a
\* NonIdentityPoint being converted to a Point); verification fails when the
\* two points differ in value, and succeeds when they are equal and this is
\* the circuit's only constraint.
C8_ConstrainEqual ==
    (/\ pass = "prove"
     /\ last.op \in { "Point::constrain_equal", "NonIdentityPoint::constrain_equal" }
     /\ last.res = "Ok") =>
        LET a == last.args[1].inner
            b == last.args[2].inner
        IN /\ << a, b >> \in constraints
           /\ (a # b) => ~Verifies
           /\ (a = b /\ constraints = { << a, b >> }) => Verifies

\* A Point has been constrained to equal a NonIdentityPoint of another
\* value, and verification fails.
C8_Witness ==
    /\ pass = "prove"
    /\ last.op = "Point::constrain_equal"
    /\ last.res = "Ok"
    /\ last.args[2].ty = "NonIdentityPoint"
    /\ last.args[1].inner # last.args[2].inner
    /\ ~Verifies

\* r is the sum of the points a and b, all three in affine coordinates.
IsGroupSum(a, b, r) ==
    \E j \in CurvePoints :
        /\ AffineXY(j) = a
        /\ \E k \in CurvePoints : AffineXY(k) = b /\ r = AffineXY(RefAdd(j, k))

\* a == b or a == -b.
Exceptional(a, b) == a = b \/ a = << b[1], FpNeg(b[2]) >>

\* C9: Point::add and NonIdentityPoint::add of two points of one chip with
\* known values, whatever the points (the identity, a == b and a == -b
\* included), return Ok unless the backend raises an error, and the point
\* returned is the group sum a + b.
C9_CompleteAddition ==
    (/\ last.op \in { "Point::add", "NonIdentityPoint::add" }
     /\ last.args[1].chip = last.args[2].chip
     /\ IsSome(last.args[1].inner)
     /\ IsSome(last.args[2].inner)) =>
        /\ last.res # "panic"
        /\ NoFailure(last.args[3]) => last.res = "Ok"
        /\ last.res = "Ok" =>
               /\ IsSome(last.val[1].inner)
               /\ IsGroupSum(Unwrap(last.args[1].inner), Unwrap(last.args[2].inner),
                             Unwrap(last.val[1].inner))

\* A point and its opposite have been added to the identity.
C9_Witness ==
    /\ last.op \in { "Point::add", "NonIdentityPoint::add" }
    /\ last.res = "Ok"
    /\ IsSome(last.args[1].inner)
    /\ ~is_identity(Unwrap(last.args[1].inner))
    /\ last.val[1].inner = Some(<< 0, 0 >>)

\* C10: NonIdentityPoint::add_incomplete of two points of one chip with
\* known values returns an error when a == b or a == -b; a point it returns
\* is the group sum a + b and is not the identity.
C10_IncompleteAddition ==
    (/\ last.op = "NonIdentityPoint::add_incomplete"
     /\ last.args[1].chip = last.args[2].chip
     /\ IsSome(last.args[1].inner)
     /\ IsSome(last.args[2].inner)) =>
        LET a == Unwrap(last.args[1].inner)
            b == Unwrap(last.args[2].inner)
        IN /\ Exceptional(a, b) => (last.res = "Err" /\ last.val = << >>)
           /\ last.res = "Ok" =>
                  /\ IsSome(last.val[1].inner)
                  /\ IsGroupSum(a, b, Unwrap(last.val[1].inner))
                  /\ ~is_identity(Unwrap(last.val[1].inner))

\* add_incomplete of a point and its opposite has returned an error.
C10_Witness ==
    /\ last.op = "NonIdentityPoint::add_incomplete"
    /\ last.args[1].chip = last.args[2].chip
    /\ NoFailure(last.args[3])
    /\ IsSome(last.args[1].inner)
    /\ IsSome(last.args[2].inner)
    /\ Unwrap(last.args[1].inner) # Unwrap(last.args[2].inner)
    /\ Exceptional(Unwrap(last.args[1].inner), Unwrap(last.args[2].inner))
    /\ last.res = "Err"

(* ---------------------------------------------------------------------- *)
(* The other variants of fixed-base multiplication                         *)
(* ---------------------------------------------------------------------- *)

\* Number of bits of the magnitude of a signed short scalar (64 for Orchard,
\* scaled down like L_ORCHARD_SCALAR).
L_VALUE == 6

\* Number of windows of a short scalar.
NUM_WINDOWS_SHORT == (L_VALUE + FIXED_BASE_WINDOW_SIZE - 1) \div FIXED_BASE_WINDOW_SIZE

\* The sign of a short scalar, a cell holding 1 or -1.
Signs == { 1, P_BASE - 1 }

\* magnitude * sign as an element of the scalar field.
SignedScalar(magnitude, sign) ==
    IF sign = 1 THEN magnitude % Q_SCALAR
    ELSE (Q_SCALAR - (magnitude % Q_SCALAR)) % Q_SCALAR

\* offset_acc of a multiplication over n windows.
RECURSIVE offset_acc_upto(_, _)
offset_acc_upto(j, n) ==
    IF j > n - 2 THEN 0
    ELSE (2 ^ (FIXED_BASE_WINDOW_SIZE * j + 1) + offset_acc_upto(j + 1, n)) % Q_SCALAR

\* The point recovered for window w of n holding the value k.
window_point_of(base, n, w, k) ==
    IF w < n - 1
    THEN AffineXY(RefMul(generator(base), ((k + 2) * (H ^ w)) % Q_SCALAR))
    ELSE AffineXY(RefMul(generator(base),
                         (k * (H ^ w) + Q_SCALAR - offset_acc_upto(0, n)) % Q_SCALAR))

\* The accumulation of the windows w .. n - 2 of known values by
\* incomplete addition.
RECURSIVE accumulate_short(_, _, _, _)
accumulate_short(base, windows, w, acc) ==
    IF w > Len(windows) - 2 THEN Ok(acc)
    ELSE Let(add_incomplete_values(window_point_of(base, Len(windows), w, windows[w + 1]),
                                   acc),
             LAMBDA r : IF r.ok
                        THEN accumulate_short(base, windows, w + 1, Unwrap(r.val))
                        ELSE r)

\* The conditional negation of a point by the sign of a short scalar.
negate_by_sign(xy, sign) == IF sign = 1 THEN xy ELSE << xy[1], FpNeg(xy[2]) >>

\* EccInstructions::mul_fixed_short: [magnitude * sign] base over
\* NUM_WINDOWS_SHORT windows of the magnitude, the last one added by complete
\* addition, followed by the conditional negation.
mul_fixed_short(magnitude_sign, base, bk) ==
    LET magnitude == magnitude_sign[1]
        sign == magnitude_sign[2]
    IN IF bk.fail # "none" THEN Err(SynthesisError)
       ELSE IF ~(IsSome(magnitude) /\ IsSome(sign))
       THEN IF bk.witness THEN Err(SynthesisError)
            ELSE Ok(<< None, [magnitude |-> magnitude, sign |-> sign] >>)
       ELSE Let(decompose_word(Unwrap(magnitude), L_VALUE, FIXED_BASE_WINDOW_SIZE),
                LAMBDA windows :
                Let(accumulate_short(base, windows, 1,
                                     window_point_of(base, Len(windows), 0, windows[1])),
                    LAMBDA acc :
                    IF ~acc.ok THEN acc
                    ELSE Ok(<< Some(negate_by_sign(
                                   add_values(window_point_of(base, Len(windows),
                                                              Len(windows) - 1,
                                                              windows[Len(windows)]),
                                              Unwrap(acc.val)),
                                   Unwrap(sign))),
                               [magnitude |-> magnitude, sign |-> sign] >>)))

\* EccInstructions::mul_fixed_base_field_elem: [base_field_elem] base, the
\* element of the base field being decomposed into NUM_WINDOWS windows like
\* a full-width scalar.
mul_fixed_base_field_elem(base_field_elem, base, bk) ==
    IF bk.fail # "none" THEN Err(SynthesisError)
    ELSE IF ~IsSome(base_field_elem)
    THEN IF bk.witness THEN Err(SynthesisError) ELSE Ok(None)
    ELSE Let(decompose_word(Unwrap(base_field_elem), L_ORCHARD_SCALAR,
                            FIXED_BASE_WINDOW_SIZE),
             LAMBDA windows :
             Let(assign_region_inner([i \in 1..Len(windows) |->
                                         CellValue(i - 1, Some(windows[i]))],
                                     base, [bk EXCEPT !.fail = "none"]),
                 LAMBDA inner :
                 IF ~inner.res.ok THEN inner.res
                 ELSE Ok(add_assign(Unwrap(inner.res.val)[2], Unwrap(inner.res.val)[1]))))

\* A faulty FixedPoint::mul_short: the sign is not passed on to the chip.
FixedPoint_mul_short_unsigned(self, magnitude_sign, bk) ==
    Let(mul_fixed_short(<< magnitude_sign[1], Some(1) >>, self.inner, bk), LAMBDA r :
        MapResult("FixedPoint::mul_short", << self, magnitude_sign, bk >>, r,
                  IF r.ok
                  THEN << Wrapper("Point", self.chip, Unwrap(r.val)[1]),
                          Wrapper("ScalarFixedShort", self.chip, Unwrap(r.val)[2]) >>
                  ELSE << >>,
                  << >>))

\* FixedPoint::mul_short: [by] self for a signed short scalar.
FixedPoint_mul_short(self, magnitude_sign, bk) ==
    Let(mul_fixed_short(magnitude_sign, self.inner, bk), LAMBDA r :
        MapResult("FixedPoint::mul_short", << self, magnitude_sign, bk >>, r,
                  IF r.ok
                  THEN << Wrapper("Point", self.chip, Unwrap(r.val)[1]),
                          Wrapper("ScalarFixedShort", self.chip, Unwrap(r.val)[2]) >>
                  ELSE << >>,
                  << >>))

\* FixedPoint::mul_base_field: [by] self for an element of the base field.
FixedPoint_mul_base_field(self, by, bk) ==
    Let(mul_fixed_base_field_elem(by, self.inner, bk), LAMBDA r :
        MapResult("FixedPoint::mul_base_field", << self, by, bk >>, r,
                  IF r.ok THEN << Wrapper("Point", self.chip, Unwrap(r.val)) >> ELSE << >>,
                  << >>))

\* The signed short scalars equal to a full-width scalar.
ShortScalarsOf(by) ==
    IF IsSome(by)
    THEN { << Some(m), Some(s) >> : m \in { k \in 0..(2 ^ L_VALUE - 1) :
                                             \E t \in Signs : SignedScalar(k, t) = Unwrap(by) },
                                    s \in Signs }
    ELSE { << None, None >> }

\* The elements of the base field equal to a full-width scalar.
BaseFieldElemsOf(by) ==
    IF IsSome(by) THEN { Some(e) : e \in { Unwrap(by) } \cap (0..(P_BASE - 1)) }
    ELSE { None }

\* FixedPoint::mul_short on the fixed base of the circuit's FixedPoint::mul,
\* by a signed short scalar of the same magnitude.  Synthesis returns at the
\* first error, so the call is made only after a call that returned Ok.
FixedPointMulShortStep ==
    /\ mulOut # None
    /\ last.res = "Ok"
    /\ ncalls < MaxCalls
    /\ \E magnitude_sign \in ShortScalarsOf(Unwrap(mulOut).args[2]), fail \in PointFails :
           \E o \in { FixedPoint_mul_short(Unwrap(mulOut).args[1], magnitude_sign,
                                           PointBackend(fail)) } :
               last' = o
    /\ ncalls' = ncalls + 1
    /\ UNCHANGED << pass, points, constraints, mulOut, region, descriptor, provers >>

\* FixedPoint::mul_base_field on the fixed base of the circuit's
\* FixedPoint::mul, by the same scalar as an element of the base field.
FixedPointMulBaseFieldStep ==
    /\ mulOut # None
    /\ last.res = "Ok"
    /\ ncalls < MaxCalls
    /\ \E by \in BaseFieldElemsOf(Unwrap(mulOut).args[2]), fail \in PointFails :
           \E o \in { FixedPoint_mul_base_field(Unwrap(mulOut).args[1], by,
                                                PointBackend(fail)) } :
               last' = o
    /\ ncalls' = ncalls + 1
    /\ UNCHANGED << pass, points, constraints, mulOut, region, descriptor, provers >>

NextVariants ==
    \/ FixedPointMulStep
    \/ FixedPointMulShortStep
    \/ FixedPointMulBaseFieldStep
    \/ NewCircuit

\* Circuits multiplying a fixed base by one scalar in several variants.
SpecVariants == Init /\ [][NextVariants]_vars

(* ---------------------------------------------------------------------- *)
(* sinsemilla::message                                                      *)
(* ---------------------------------------------------------------------- *)

\* The number of bits of a positive integer.
RECURSIVE BitLength(_)
BitLength(n) == IF n = 0 THEN 0 ELSE 1 + BitLength(n \div 2)

\* F::NUM_BITS of the base field.
NUM_BITS == BitLength(P_BASE - 1)

\* The values of the const generic K, the bits of a word.
WordSizes == { 1, FIXED_BASE_WINDOW_SIZE }

\* The largest num_words a caller passes, the largest MAX_WORDS of a message
\* type and the longest list of pieces.
MaxNumWords == 4
MaxMaxWords == 4
MaxPieces == 3

\* The field elements a piece is made with.
FieldElems == { None, Some(1) }

\* MessagePiece::new: panics unless num_words * K < F::NUM_BITS.
MessagePiece_new(K, cell, field_elem, num_words) ==
    IF num_words * K < NUM_BITS
    THEN Outcome("MessagePiece::new", << K, cell, field_elem, num_words >>, "Ok", "",
                 << [cell_value |-> CellValue(cell, field_elem), num_words |-> num_words] >>,
                 << >>)
    ELSE Outcome("MessagePiece::new", << K, cell, field_elem, num_words >>, "panic", "",
                 << >>, << >>)

\* MessagePiece::num_words
num_words(piece) == piece.num_words

\* pieces.iter().map(|piece| piece.num_words()).sum()
RECURSIVE SumOfWords(_)
SumOfWords(pieces) ==
    IF pieces = << >> THEN 0
    ELSE num_words(Head(pieces)) + SumOfWords(Tail(pieces))

\* Message::from(pieces) for the message type of MAX_WORDS words: panics
\* unless the sum of the pieces' words is below MAX_WORDS.
Message_from(K, MAX_WORDS, pieces) ==
    IF SumOfWords(pieces) < MAX_WORDS
    THEN Outcome("Message::from", << K, MAX_WORDS, pieces >>, "Ok", "", << pieces >>, << >>)
    ELSE Outcome("Message::from", << K, MAX_WORDS, pieces >>, "panic", "", << >>, << >>)

\* The pieces of words of K bits that MessagePiece::new has returned.
Pieces(K) ==
    { o.val[1] : o \in { p \in { MessagePiece_new(K, 0, f, n) :
                                     f \in FieldElems, n \in 0..MaxNumWords } :
                         p.res = "Ok" } }

\* The lists of at most MaxPieces pieces.
PieceLists(K) ==
    UNION { [1..n -> Pieces(K)] : n \in 0..MaxPieces }

\* A piece is made of a cell, a field element and a number of words.  The
\* two constructors are functions of their arguments alone: each is called
\* once from the initial state.
MessagePieceNewStep ==
    /\ ncalls = 0
    /\ ncalls' = ncalls + 1
    /\ \E K \in WordSizes, f \in FieldElems, n \in 0..MaxNumWords :
           last' = MessagePiece_new(K, 0, f, n)
    /\ UNCHANGED << pass, points, constraints, mulOut, region, descriptor, provers >>

\* A message is made from a list of pieces.
MessageFromStep ==
    /\ ncalls = 0
    /\ ncalls' = ncalls + 1
    /\ \E K \in WordSizes, MAX_WORDS \in 1..MaxMaxWords :
           \E pieces \in PieceLists(K) :
               last' = Message_from(K, MAX_WORDS, pieces)
    /\ UNCHANGED << pass, points, constraints, mulOut, region, descriptor, provers >>

NextMessage ==
    \/ MessagePieceNewStep
    \/ MessageFromStep
    \/ NewCircuit

\* Callers making message pieces and messages.
SpecMessage == Init /\ [][NextMessage]_vars

\* C13: Message::from returns the message for every list of pieces whose
\* words sum to at most MAX_WORDS, and panics only when the sum exceeds
\* MAX_WORDS.
C13_MessageOfAtMostMaxWords ==
    last.op = "Message::from" =>
        (last.res = "Ok" <=> SumOfWords(last.args[3]) <= last.args[2])

\* C14: MessagePiece::new returns the piece whenever its bit length
\* num_words * K does not exceed NUM_BITS, and panics only when the bit
\* length exceeds NUM_BITS.
C14_PieceOfAtMostNumBits ==
    last.op = "MessagePiece::new" =>
        (last.res = "Ok" <=> last.args[4] * last.args[1] <= NUM_BITS)

(* ---------------------------------------------------------------------- *)
(* The accumulation over every sequence of window values                   *)
(* ---------------------------------------------------------------------- *)

\* The window cells of a scalar: every sequence of NUM_WINDOWS values below
\* H, canonical or not, and the cells of an unknown scalar.
WindowCells ==
    { [i \in 1..NUM_WINDOWS |-> CellValue(i - 1, Some(ws[i]))] :
          ws \in [1..NUM_WINDOWS -> 0..(H - 1)] }
    \cup { [i \in 1..NUM_WINDOWS |-> CellValue(i - 1, None)] }

\* assign_region_inner on the window cells of a scalar, as Config::assign
\* calls it in its first region: val holds acc and mul_b, call the operands
\* of the incomplete additions.
AccumulateStep ==
    /\ ncalls = 0
    /\ ncalls' = ncalls + 1
    /\ \E windows \in WindowCells, base \in FixedBases,
          fail \in { "none", "assign_region_inner" } :
           \E inner \in { assign_region_inner(windows, base,
                                              [fail |-> fail, at |-> 0,
                                               witness |-> (pass = "prove")]) } :
               last' = Outcome("assign_region_inner", << windows, base, fail >>,
                               IF inner.res.ok THEN "Ok" ELSE "Err",
                               inner.res.err,
                               IF inner.res.ok THEN Unwrap(inner.res.val) ELSE << >>,
                               inner.adds)
    /\ UNCHANGED << pass, points, constraints, mulOut, region, descriptor, provers >>

NextAccumulate ==
    \/ AccumulateStep
    \/ NewCircuit

\* The first region of the multiplication for every sequence of windows.
SpecAccumulate == Init /\ [][NextAccumulate]_vars

(* ---------------------------------------------------------------------- *)
(* The same multiplication synthesised again                               *)
(* ---------------------------------------------------------------------- *)

\* The FixedPoint::mul of the circuit is synthesised once more, on a fresh
\* constraint system, with the same fixed base, the same scalar and the same
\* behaviour of the backend.
RerunStep ==
    /\ mulOut # None
    /\ ncalls < MaxCalls
    /\ \E o \in { FixedPoint_mul(Unwrap(mulOut).args[1], Unwrap(mulOut).args[2],
                                 Unwrap(mulOut).args[3]) } :
           /\ last' = o
           /\ region' = RegionOf(o)
    /\ ncalls' = ncalls + 1
    /\ points' = {}
    /\ constraints' = {}
    /\ UNCHANGED << pass, mulOut, descriptor, provers >>

NextRerun ==
    \/ FixedPointMulStep
    \/ RerunStep
    \/ NewCircuit

\* Circuits whose multiplication is synthesised more than once.
SpecRerun == Init /\ [][NextRerun]_vars

(* ---------------------------------------------------------------------- *)
(* Proof constructions in parallel on one fixed-base descriptor            *)
(* ---------------------------------------------------------------------- *)

\* A faulty descriptor: reading it moves it on to another fixed base.
after_read_advanced(self) ==
    CASE self = "CommitIvkR" -> "NoteCommitR"
      [] self = "NoteCommitR" -> "ValueCommitR"
      [] self = "ValueCommitR" -> "SpendAuthG"
      [] self = "SpendAuthG" -> "CommitIvkR"

\* The descriptor after generator(&self), u(&self), z(&self) or
\* lagrange_coeffs(&self): each borrows it shared and returns an owned
\* value, and the test's FixedBase answers from immutable statics.
after_read(self) == self

\* The scalars and the backend refusals of the parallel constructions.
ParScalars == { None, Some(1), Some(92), Some(Q_SCALAR - 1) }

ParFails == { "none", "assign_region_complete" }

ProverBackend(p) == [fail |-> p.fail, at |-> 0, witness |-> (pass = "prove")]

\* The construction running alone on the fixed base it started with.
Alone(p) == FixedPoint_mul(FixedPoint_from_inner(p.chip, p.base), p.by, ProverBackend(p))

\* A construction starts a FixedPoint::mul on the shared descriptor, on its
\* own constraint system.
ProverStartStep ==
    \E i \in ProverIds, chip \in Chips, by \in ParScalars, fail \in ParFails :
        /\ provers[i].state = "idle"
        /\ provers' = [provers EXCEPT ![i] =
                           [state |-> "running", chip |-> chip, base |-> descriptor,
                            by |-> by, fail |-> fail, log |-> << >>, res |-> "Ok",
                            val |-> << >>]]
        /\ UNCHANGED << pass, ncalls, points, constraints, last, mulOut, region,
                        descriptor >>

\* One construction makes its next step, whatever the others are doing: it
\* reads the shared descriptor and writes to its own constraint system; after
\* the last step the call returns.
ProverStep ==
    \E i \in ProverIds :
        /\ provers[i].state = "running"
        /\ \E o \in { FixedPoint_mul(FixedPoint_from_inner(provers[i].chip, descriptor),
                                     provers[i].by, ProverBackend(provers[i])) } :
               IF Len(provers[i].log) < Len(o.call.log)
               THEN provers' = [provers EXCEPT ![i].log =
                                    Append(@, o.call.log[Len(provers[i].log) + 1])]
               ELSE provers' = [provers EXCEPT ![i].state = "done",
                                               ![i].res = o.res,
                                               ![i].val = o.val]
        /\ descriptor' = after_read(descriptor)
        /\ UNCHANGED << pass, ncalls, points, constraints, last, mulOut, region >>

\* A finished construction is dropped and its slot is free again.
ProverDropStep ==
    \E i \in ProverIds :
        /\ provers[i].state = "done"
        /\ provers' = [provers EXCEPT ![i] = IdleProver]
        /\ UNCHANGED << pass, ncalls, points, constraints, last, mulOut, region,
                        descriptor >>

NextParallel ==
    \/ ProverStartStep
    \/ ProverStep
    \/ ProverDropStep

\* Proof constructions interleaved step by step.
SpecParallel == Init /\ [][NextParallel]_vars

(* ---------------------------------------------------------------------- *)
(* A circuit using the point gadgets and the fixed-base gadgets            *)
(* ---------------------------------------------------------------------- *)

\* The fixed base and the scalars of the circuit's fixed-base calls.
GadgetBases == { "ValueCommitR" }

GadgetScalars == VarScalars \ { None }

\* The backend of a fixed-base call, which does not refuse.
FixedBackend == [fail |-> "none", at |-> 0, witness |-> (pass = "prove")]

\* FixedPoint::mul, whose point the caller may keep.
FixedPointMulKeptStep ==
    /\ ncalls < MaxCalls
    /\ \E chip \in Chips, base \in GadgetBases, by \in GadgetScalars :
        \E o \in { FixedPoint_mul(FixedPoint_from_inner(chip, base), by,
                                  FixedBackend) } :
            Returned(o)

\* FixedPoint::mul_short, whose point the caller may keep.
FixedPointMulShortKeptStep ==
    /\ ncalls < MaxCalls
    /\ \E chip \in Chips, base \in GadgetBases, by \in GadgetScalars :
        \E ms \in ShortScalarsOf(by) :
            \E o \in { FixedPoint_mul_short(FixedPoint_from_inner(chip, base), ms,
                                            FixedBackend) } :
                Returned(o)

\* FixedPoint::mul_base_field, whose point the caller may keep.
FixedPointMulBaseFieldKeptStep ==
    /\ ncalls < MaxCalls
    /\ \E chip \in Chips, base \in GadgetBases, by \in GadgetScalars :
        \E e \in BaseFieldElemsOf(by) :
            \E o \in { FixedPoint_mul_base_field(FixedPoint_from_inner(chip, base), e,
                                                 FixedBackend) } :
                Returned(o)

NextGadgets ==
    \/ PointNewStep
    \/ NonIdentityPointNewStep
    \/ PointFromStep
    \/ FromInnerStep
    \/ ExtractPStep
    \/ NonIdentityPointAddStep
    \/ PointAddStep
    \/ AddIncompleteStep
    \/ NonIdentityPointMulStep
    \/ NonIdentityPointConstrainEqualStep
    \/ PointConstrainEqualStep
    \/ FixedPointMulKeptStep
    \/ FixedPointMulShortKeptStep
    \/ FixedPointMulBaseFieldKeptStep
    \/ NewCircuit

\* Circuits calling every gadget operation, on wrappers of two chips.
SpecGadgets == Init /\ [][NextGadgets]_vars

(* ---------------------------------------------------------------------- *)
(* Claims on the variants, the errors and the regions of the multiplication *)
(* ---------------------------------------------------------------------- *)

\* The scalar field element a variant call multiplies its base by.
VariantScalar(o) ==
    IF o.op = "FixedPoint::mul_short"
    THEN SignedScalar(Unwrap(o.args[2][1]), Unwrap(o.args[2][2]))
    ELSE Unwrap(o.args[2]) % Q_SCALAR

\* The variant call has returned a point of known coordinates.
VariantReturned(o) ==
    /\ o.op \in { "FixedPoint::mul_short", "FixedPoint::mul_base_field" }
    /\ o.res = "Ok"
    /\ IsSome(o.val[1].inner)

\* C11: for a scalar representable by several variants, the full-width, the
\* short and the base-field multiplication of one fixed base return the same
\* point, the reference product of the scalar and the base.
C11_VariantsAgree ==
    VariantReturned(last) =>
        /\ last.val[1].inner
               = Some(AffineXY(RefMul(generator(last.args[1].inner), VariantScalar(last))))
        /\ \A o \in MulOutcomes :
               ( /\ o.res = "Ok"
                 /\ IsSome(o.args[2])
                 /\ o.args[1] = last.args[1]
                 /\ Unwrap(o.args[2]) = VariantScalar(last) )
               => o.val[1].inner = last.val[1].inner

\* The short multiplication by a negative scalar has returned the point of
\* the full-width multiplication by the same scalar, which is not the
\* identity.
C11_Witness ==
    /\ VariantReturned(last)
    /\ last.op = "FixedPoint::mul_short"
    /\ last.args[2][2] = Some(P_BASE - 1)
    /\ \E o \in MulOutcomes :
           /\ o.res = "Ok"
           /\ o.args[1] = last.args[1]
           /\ o.args[2] = Some(VariantScalar(last))
           /\ o.val[1].inner = last.val[1].inner
           /\ ~is_identity(Unwrap(o.val[1].inner))

\* The steps of Config::assign in the order of the source.
StepsOfAssign ==
    << Event("open_region", 1) >>
    \o [i \in 1..NUM_WINDOWS |-> Event("enable", i - 1)]
    \o [i \in 1..NUM_WINDOWS |-> Event("assign_advice", i - 1)]
    \o << Event("assign_region_inner", 1), Event("close_region", 1),
          Event("open_region", 2), Event("add", 2), Event("close_region", 2) >>

\* The position in StepsOfAssign of the step for which the backend of a
\* FixedPoint::mul call returns an error, 0 if it returns none.  Assigning
\* an advice cell fails on an unknown value when the witnesses are needed.
FailedStep(o) ==
    LET bk == o.args[3]
        unknown == IF bk.witness /\ ~IsSome(o.args[2]) THEN 2 + NUM_WINDOWS ELSE 0
        raised == CASE bk.fail = "assign_region_incomplete" -> 1
                    [] bk.fail = "enable" -> 2 + bk.at
                    [] bk.fail = "assign_advice" -> 2 + NUM_WINDOWS + bk.at
                    [] bk.fail = "assign_region_inner" -> 2 + 2 * NUM_WINDOWS
                    [] bk.fail = "assign_region_complete" -> 4 + 2 * NUM_WINDOWS
                    [] OTHER -> 0
    IN IF unknown = 0 THEN raised
       ELSE IF raised = 0 THEN unknown
       ELSE IF raised < unknown THEN raised ELSE unknown

\* C12: an error of the backend during a gadget call comes back to the
\* caller as Err with the backend's error: the steps of the call before the
\* failing one have run once each, no later step has run, and no wrapper
\* value is returned.
C12_BackendErrorsPropagate ==
    /\ \A o \in MulOutcomes :
           FailedStep(o) # 0 =>
               /\ o.res = "Err"
               /\ o.err = SynthesisError
               /\ o.val = << >>
               /\ o.call.final = << >>
               /\ Len(o.call.log) <= FailedStep(o)
               /\ Len(o.call.log) >= FailedStep(o) - 1
               /\ o.call.log = SubSeq(StepsOfAssign, 1, Len(o.call.log))
    /\ ( /\ last.op \in { "NonIdentityPoint::new", "Point::constrain_equal" }
         /\ last.args[3].fail # "none" )
       => /\ last.res = "Err"
          /\ last.err = SynthesisError
          /\ last.val = << >>
          /\ last.call = << >>

\* The selector of the second row could not be enabled: the multiplication
\* returned the error after the first row, with no cell assigned.
C12_Witness ==
    \E o \in MulOutcomes :
        /\ o.args[3].fail = "enable"
        /\ o.args[3].at = 1
        /\ o.res = "Err"
        /\ o.call.log = << Event("open_region", 1), Event("enable", 0) >>

BackendRefuses(o) ==
    \/ o.args[3].fail # "none"
    \/ o.args[3].witness /\ ~IsSome(o.args[2])

\* C16 (as stated): Point::new never returns an error, whatever its input.
C16_PointNewNeverErrors ==
    last.op = "Point::new" => last.res = "Ok"

\* C16 (amended): Point::new fails no assertion and returns an error
\* exactly when the backend returns one; no value of the point, the
\* identity included, makes it fail, and the point returned for a known
\* value has its affine coordinates, (0, 0) for the identity.
C16_PointNewErrorsOnlyFromBackend ==
    last.op = "Point::new" =>
        /\ last.res # "panic"
        /\ last.res = "Err" <=> BackendRefuses(last)
        /\ last.res = "Err" => last.err = SynthesisError
        /\ (last.res = "Ok" /\ IsSome(last.args[2]))
           => last.val[1].inner = Some(AffineXY(Unwrap(last.args[2])))
        /\ (last.res = "Ok" /\ ~IsSome(last.args[2])) => last.val[1].inner = None

\* The identity has been witnessed as a Point by a backend that needs the
\* witnesses.
C16_Witness ==
    /\ last.op = "Point::new"
    /\ last.args[2] = Some(identity)
    /\ last.args[3].witness
    /\ last.res = "Ok"
    /\ last.val[1].inner = Some(<< 0, 0 >>)

\* The positions of an event in a log.
PositionsOf(log, e) == { i \in 1..Len(log) : log[i] = e }

\* The point the chip recovers for window w of a returned ScalarFixed.
PointOfWindow(o, w) ==
    LET k == o.val[2].inner.windows[w + 1].value
    IN IF IsSome(k) THEN Some(window_point(o.args[1].inner, w, Unwrap(k))) ELSE None

\* The FixedPoint::mul call that has just returned, if the last call is one.
LastMul == IF last.op = "FixedPoint::mul" THEN { last } ELSE {}

\* The events of the final region.
FinalRegionEvents ==
    { Event("open_region", 2), Event("add", 2), Event("close_region", 2) }

\* C17: in every mul_fixed call the region of the incomplete additions is
\* assigned first and is closed before the final region is opened; a call
\* that returns has made exactly one complete addition, in the final region,
\* of the last window's point and the accumulator, and its incomplete
\* additions are those of the windows 1 .. NUM_WINDOWS - 2, the last window
\* not among them.
C17_RegionsInOrder ==
    \A o \in LastMul :
        LET log == o.call.log
        IN /\ log # << >> => log[1] = Event("open_region", 1)
           /\ \A i \in 1..Len(log) :
                  log[i] \in FinalRegionEvents =>
                      /\ \E j \in 1..(i - 1) : log[j] = Event("close_region", 1)
                      /\ \A k \in i..Len(log) : log[k] \in FinalRegionEvents
           /\ \A i \in PositionsOf(log, Event("close_region", 1)) :
                  \A k \in 1..i : log[k] \notin FinalRegionEvents /\ log[k].op # "add"
           /\ o.res = "Ok" =>
                  /\ Cardinality(PositionsOf(log, Event("open_region", 1))) = 1
                  /\ Cardinality(PositionsOf(log, Event("close_region", 1))) = 1
                  /\ Cardinality(PositionsOf(log, Event("open_region", 2))) = 1
                  /\ Cardinality({ i \in 1..Len(log) : log[i].op = "add" }) = 1
                  /\ Len(o.call.final) = 1
                  /\ o.call.final[1][1] = PointOfWindow(o, NUM_WINDOWS - 1)
                  /\ Len(o.call.adds) = NUM_WINDOWS - 2
                  /\ \A w \in 1..Len(o.call.adds) :
                         /\ w < NUM_WINDOWS - 1
                         /\ o.call.adds[w][1] = PointOfWindow(o, w)

\* A multiplication by a known scalar has returned after both regions: the
\* first one closed before the second one opened for the one complete
\* addition.
C17_Witness ==
    \E o \in MulOutcomes :
        /\ o.res = "Ok"
        /\ IsSome(o.args[2])
        /\ o.call.log = StepsOfAssign
        /\ Len(o.call.final) = 1
        /\ IsSome(o.call.final[1][1])

\* The opposite of a point in affine coordinates.
NegXY(xy) == << xy[1], FpNeg(xy[2]) >>

\* The accumulation over known windows that has just been made, if any.
LastAccumulation ==
    IF /\ last.op = "assign_region_inner"
       /\ last.args[3] = "none"
       /\ \A i \in 1..NUM_WINDOWS : IsSome(last.args[1][i].value)
    THEN { last } ELSE {}

DoublingWindows ==
    [i \in 1..NUM_WINDOWS |-> IF i = 1 THEN 4 ELSE IF i = NUM_WINDOWS THEN 1 ELSE 3]

\* C19: among the window sequences whose value is below the modulus of the
\* scalar field, exactly one makes the final complete addition a doubling,
\* the point of the last window being equal to the accumulator: the
\* sequence 1 3 ... 3 4 of the source.  Every other canonical sequence has
\* distinct operands at the final step.
C19_OneCanonicalDoubling ==
    \A o \in LastAccumulation :
        WindowSum(o.args[1], 1) < Q_SCALAR =>
            /\ o.res = "Ok"
            /\ (o.val[2] = o.val[1])
               <=> (\A i \in 1..NUM_WINDOWS : Unwrap(o.args[1][i].value) = DoublingWindows[i])

\* The accumulation over the doubling sequence has returned the accumulator
\* and an equal point for the last window.
C19_Witness ==
    \E o \in LastAccumulation :
        /\ \A i \in 1..NUM_WINDOWS : Unwrap(o.args[1][i].value) = DoublingWindows[i]
        /\ WindowSum(o.args[1], 1) < Q_SCALAR
        /\ o.res = "Ok"
        /\ IsSome(o.val[1])
        /\ o.val[2] = o.val[1]

\* C20: a FixedPoint::mul by an unknown scalar fails no assertion, the
\* check of the result against base.generator() * scalar being skipped; it
\* returns Ok exactly when the backend returns no error, and then the
\* ScalarFixed has the value None and NUM_WINDOWS window cells, one per row,
\* each of unknown value, and the point is unknown.
C20_UnknownScalar ==
    \A o \in LastMul :
        ~IsSome(o.args[2]) =>
            /\ o.res # "panic"
            /\ o.res = "Ok" <=> FailedStep(o) = 0
            /\ o.res = "Ok" =>
                   /\ o.val[2].ty = "ScalarFixed"
                   /\ o.val[2].inner.value = None
                   /\ Len(o.val[2].inner.windows) = NUM_WINDOWS
                   /\ \A i \in 1..NUM_WINDOWS :
                          o.val[2].inner.windows[i] = CellValue(i - 1, None)
                   /\ o.val[1].inner = None
                   /\ o.call.log = StepsOfAssign

\* A multiplication by an unknown scalar has returned a ScalarFixed of
\* unknown windows after both regions.
C20_Witness ==
    \E o \in MulOutcomes :
        /\ o.args[2] = None
        /\ o.res = "Ok"
        /\ o.val[2].inner.value = None
        /\ Len(o.val[2].inner.windows) = NUM_WINDOWS
        /\ o.val[2].inner.windows[NUM_WINDOWS].value = None
        /\ Len(o.call.final) = 1

\* The rows of a log's events of one operation, in the order of the log.
RowsOf(log, op) ==
    LET at == SelectSeq([i \in 1..Len(log) |-> i], LAMBDA i : log[i].op = op)
    IN [k \in 1..Len(at) |-> log[at[k]].arg]

\* C21: in every mul_fixed call that returns, the selector q_mul_fixed_full
\* is enabled once on each of the rows 0 .. NUM_WINDOWS - 1 of the region,
\* the window cell i is assigned once, on row i, and no call, returning or
\* not, assigns a window cell on a row whose selector is not enabled.
C21_SelectorOnEveryWindowRow ==
    \A o \in LastMul :
        /\ \A i \in 1..Len(RowsOf(o.call.log, "assign_advice")) :
               RowsOf(o.call.log, "assign_advice")[i] \in EnabledRows(o.call.log)
        /\ o.res = "Ok" =>
               /\ RowsOf(o.call.log, "enable") = [i \in 1..NUM_WINDOWS |-> i - 1]
               /\ RowsOf(o.call.log, "assign_advice") = [i \in 1..NUM_WINDOWS |-> i - 1]
               /\ EnabledRows(o.call.log) = 0..(NUM_WINDOWS - 1)
               /\ Len(o.val[2].inner.windows) = NUM_WINDOWS
               /\ \A i \in 1..NUM_WINDOWS :
                      /\ o.val[2].inner.windows[i].row = i - 1
                      /\ o.val[2].inner.windows[i].row \in region.enabled
               /\ region.enabled = 0..(NUM_WINDOWS - 1)
               /\ Len(region.window) = NUM_WINDOWS

\* A multiplication has returned with its NUM_WINDOWS window cells on the
\* rows 0 .. NUM_WINDOWS - 1, the selector enabled on each of them.
C21_Witness ==
    \E o \in MulOutcomes :
        /\ o.res = "Ok"
        /\ EnabledRows(o.call.log) = 0..(NUM_WINDOWS - 1)
        /\ o.val[2].inner.windows[NUM_WINDOWS].row = NUM_WINDOWS - 1
        /\ region.enabled = 0..(NUM_WINDOWS - 1)

\* C22: constrain_equal fails no assertion and returns an error exactly
\* when the backend returns one, whether the values of the two points are
\* equal or not; with values that differ it returns Ok and adds the
\* constraint, and the mismatch makes verification fail.
C22_MismatchFailsOnlyVerification ==
    last.op \in { "Point::constrain_equal", "NonIdentityPoint::constrain_equal" } =>
        /\ last.res # "panic"
        /\ last.res = "Err" <=> last.args[3].fail # "none"
        /\ last.res = "Err" => last.err = SynthesisError
        /\ (last.res = "Ok" /\ last.args[1].inner # last.args[2].inner) =>
               /\ << last.args[1].inner, last.args[2].inner >> \in constraints
               /\ pass = "prove" => ~Verifies

\* A NonIdentityPoint has been constrained to equal a point of another
\* value by a backend that returns no error: the call returned Ok and
\* verification fails.
C22_Witness ==
    /\ pass = "prove"
    /\ last.op \in { "Point::constrain_equal", "NonIdentityPoint::constrain_equal" }
    /\ last.args[3].fail = "none"
    /\ IsSome(last.args[1].inner) /\ IsSome(last.args[2].inner)
    /\ last.args[1].inner # last.args[2].inner
    /\ last.res = "Ok"
    /\ ConstraintFailures # {}

\* The call has returned a NonIdentityPoint wrapper.
ProducedNonIdentityPoint(o) ==
    /\ o.res = "Ok"
    /\ Len(o.val) > 0
    /\ o.val[1].ty = "NonIdentityPoint"

\* C23 (as stated): a NonIdentityPoint wrapper is returned by the fallible
\* witnessing operation NonIdentityPoint::new and by no other operation.
C23_OnlyWitnessingConstructs ==
    ProducedNonIdentityPoint(last) => last.op = "NonIdentityPoint::new"

\* C23 (amended): a call returns a NonIdentityPoint wrapper only if it is
\* NonIdentityPoint::new of a value that is not the identity, or
\* add_incomplete of two NonIdentityPoints in scope with a result that is not
\* the identity, or from_inner of the inner point of a NonIdentityPoint in
\* scope; none makes one of a value that was not checked.
C23_NonIdentityPointsAreChecked ==
    [][ ProducedNonIdentityPoint(last') =>
           \/ /\ last'.op = "NonIdentityPoint::new"
              /\ last'.args[2] # Some(identity)
           \/ /\ last'.op = "NonIdentityPoint::add_incomplete"
              /\ last'.args[1] \in NonIdPoints
              /\ last'.args[2] \in NonIdPoints
              /\ IsSome(last'.val[1].inner) => ~is_identity(Unwrap(last'.val[1].inner))
           \/ /\ last'.op = "NonIdentityPoint::from_inner"
              /\ \E a \in NonIdPoints : a.inner = last'.args[2]
              /\ last'.val[1].inner = last'.args[2] ]_vars

\* from_inner has wrapped, without a check of its own, the known inner point
\* of a NonIdentityPoint, which is not the identity.
C23_Witness ==
    /\ last.op = "NonIdentityPoint::from_inner"
    /\ ProducedNonIdentityPoint(last)
    /\ IsSome(last.val[1].inner)
    /\ ~is_identity(Unwrap(last.val[1].inner))

\* NonIdentityPoint::new has refused the identity.
IdentityRefused(o) ==
    /\ o.op = "NonIdentityPoint::new"
    /\ o.args[2] = Some(identity)
    /\ o.args[3].fail = "none"
    /\ o.res = "Err"

Depth(log, k) ==
    Cardinality({ i \in 1..k : log[i].op = "open_region" })
    - Cardinality({ i \in 1..k : log[i].op = "close_region" })

\* C25: at most one region is open at a time.  In a mul_fixed call every
\* step is made inside the one open region, a region is closed before the
\* next is opened, the region closed is the one opened last, and a call
\* that returns leaves no region open; the calls that follow it are made
\* after both of its regions are closed.
C25_RegionsNeverInterleave ==
    /\ \A o \in LastMul :
           LET log == o.call.log
           IN /\ \A k \in 1..Len(log) :
                     /\ Depth(log, k) \in { 0, 1 }
                     /\ log[k].op = "open_region" => Depth(log, k - 1) = 0
                     /\ log[k].op \notin { "open_region", "close_region" }
                            => Depth(log, k) = 1
                     /\ log[k].op = "close_region" =>
                            \E j \in 1..(k - 1) :
                                /\ log[j] = Event("open_region", log[k].arg)
                                /\ \A i \in (j + 1)..(k - 1) :
                                       log[i].op \notin { "open_region", "close_region" }
              /\ o.res = "Ok" => Depth(log, Len(log)) = 0
    /\ last.op \notin { "none", "FixedPoint::mul" } =>
           \A o \in MulOutcomes : Depth(o.call.log, Len(o.call.log)) = 0

\* A call has followed a multiplication that opened and closed its two
\* regions one after the other.
C25_Witness ==
    /\ last.op \notin { "none", "FixedPoint::mul" }
    /\ \E o \in MulOutcomes :
           /\ Cardinality({ i \in 1..Len(o.call.log) : o.call.log[i].op = "open_region" }) = 2
           /\ Depth(o.call.log, Len(o.call.log)) = 0

NeedsUnknownValue(by, bk) == bk.witness /\ ~IsSome(by)

\* The rows of the window cells of a returned call.
CellRows(o) == [i \in 1..Len(o.val[2].inner.windows) |-> o.val[2].inner.windows[i].row]

\* C28: the layout of mul_fixed does not depend on the scalar.  A call lays
\* out what the call by the scalar 0 lays out on the backend of the other
\* pass (with the values evaluated, or without): the same steps in the same
\* order (regions opened and closed, selector rows enabled, cells assigned),
\* up to the same refusal of the backend if there is one; and two calls that
\* return have the same number of window cells on the same rows.  The call
\* by an unknown scalar is compared where it can return, on a backend that
\* does not evaluate the values.
C28_LayoutIndependentOfScalar ==
    \A o \in LastMul :
        ~NeedsUnknownValue(o.args[2], o.args[3]) =>
            \E r \in { FixedPoint_mul(o.args[1], Some(0),
                                      [o.args[3] EXCEPT !.witness = ~o.args[3].witness]) } :
                /\ r.call.log = o.call.log
                /\ r.res = o.res
                /\ EnabledRows(r.call.log) = EnabledRows(o.call.log)
                /\ o.res = "Ok" =>
                       /\ CellRows(r) = CellRows(o)
                       /\ Len(CellRows(o)) = NUM_WINDOWS
                       /\ o.call.log = StepsOfAssign
                       /\ region.enabled = EnabledRows(r.call.log)

\* Key generation has laid out a multiplication by an unknown scalar: it
\* is compared with the layout of a known scalar, whose values differ.
C28_Witness ==
    /\ last.op = "FixedPoint::mul"
    /\ last.res = "Ok"
    /\ last.args[2] = None
    /\ ~last.args[3].witness
    /\ last.call.log = StepsOfAssign
    /\ last.val[2].inner.windows[1].value = None
    /\ region.enabled = 0..(NUM_WINDOWS - 1)

\* The gadget operations that return wrappers made by a receiver.
ReceiverOps ==
    { "NonIdentityPoint::add", "NonIdentityPoint::add_incomplete", "Point::add",
      "NonIdentityPoint::mul", "FixedPoint::mul", "FixedPoint::mul_short",
      "FixedPoint::mul_base_field", "extract_p", "Point::from" }

AddOps == { "NonIdentityPoint::add", "NonIdentityPoint::add_incomplete", "Point::add" }

ConstrainEqualOps == { "NonIdentityPoint::constrain_equal", "Point::constrain_equal" }

\* C29: every wrapper that add, add_incomplete, mul, FixedPoint::mul,
\* mul_short, mul_base_field, extract_p or the conversion returns has the
\* chip of the receiver.  add and add_incomplete called with an operand of
\* another chip panic, and they do so before the backend is called: also
\* where the backend would have refused the call, and nothing is returned.
\* With operands of one chip they do not panic.  constrain_equal never
\* panics: with operands of two chips it returns what the backend answers.
C29_ChipHandles ==
    /\ last.op \in ReceiverOps /\ last.res = "Ok" =>
           /\ Len(last.val) > 0
           /\ \A i \in 1..Len(last.val) : last.val[i].chip = last.args[1].chip
    /\ last.op \in AddOps =>
           /\ last.res = "panic" <=> last.args[1].chip # last.args[2].chip
           /\ last.res = "panic" => last.val = << >> /\ last.call = << >>
    /\ last.op \in ConstrainEqualOps =>
           /\ last.res # "panic"
           /\ last.res = "Ok" <=> last.args[3].fail = "none"

\* Point::add has been called with an operand of another chip on a backend
\* that refuses the call: the call has panicked, not returned the error.
C29_Witness ==
    /\ last.op = "Point::add"
    /\ last.args[1].chip # last.args[2].chip
    /\ last.args[3].fail # "none"
    /\ last.res = "panic"
    /\ \E w \in points : w.chip # last.args[1].chip
====
